---- MODULE Spec2Model ----
(***************************************************************************)
(* Task-Marshal 1.1.0 persistence core: FilesystemManager (signed content  *)
(* files with .sig sidecars) and JournalManager (journal.jsonl).           *)
(* Every handler is split at its await points, so that callers that do not *)
(* serialize their calls, and a process crash between two awaits, are      *)
(* behaviours of the model.                                                *)
(***************************************************************************)
EXTENDS Naturals, Sequences, FiniteSets

(* ------------------------------ bounds -------------------------------- *)

\* number of distinct titles / names a caller passes in
NumTitles == 2
\* number of process crashes in one behaviour
MaxCrashes == 1
\* number of journal entries appended in one behaviour
MaxEntries == 2
\* how many times the process crashes where the journal is kept
MaxFlowCrashes == 2

(* ------------------------------ values -------------------------------- *)

InitiativeIds == {"X", "Y"}
TaskIds == {"T1"}
Procs == {"p1", "p2"}
TitleNames == <<"alpha", "beta", "gamma", "delta">>
Titles == {TitleNames[n] : n \in 1..NumTitles}

\* JavaScript values held in the fields of the domain objects
Undefined == [k |-> "undefined", v |-> ""]
Null == [k |-> "null", v |-> ""]
StrOf(s) == [k |-> "string", v |-> s]
DateOf(iso) == [k |-> "date", v |-> iso]

Tasks ==
  [id : TaskIds, initiativeId : InitiativeIds, title : {StrOf(t) : t \in Titles},
   createdAt : {DateOf("2024-01-05T00:00:00.000Z")},
   dueDate : {Undefined}]

Initiatives ==
  [id : InitiativeIds, name : {StrOf(t) : t \in Titles},
   createdAt : {DateOf("2024-01-05T00:00:00.000Z")},
   description : {Undefined}]

Sla == [k |-> "sla", targetDate |-> DateOf("2024-01-10T00:00:00.000Z"), toleranceHours |-> 24]
Contracts ==
  [from : {"T1"}, to : {"T2"}, relationshipType : {"blocks"}, sla : {Undefined, Sla}]
DependencyLists == {<<>>} \cup {<<c>> : c \in Contracts}

(* ------------------- JSON.stringify / JSON.parse ---------------------- *)

JAbsent == [j |-> "absent", v |-> ""]
JStr(s) == [j |-> "string", v |-> s]

\* JSON.stringify of one property value: a Date is written through its toJSON
\* (the ISO string), a property holding undefined is left out of the object
ToJSON(x) ==
  CASE x.k = "date" -> JStr(x.v)
    [] x.k = "string" -> JStr(x.v)
    [] x.k = "sla" -> [j |-> "object", targetDate |-> JStr(x.targetDate.v),
                       toleranceHours |-> x.toleranceHours]
    [] OTHER -> JAbsent

\* JSON.parse of one property: a JSON string is a string (nothing revives a
\* Date), a property that is not in the text reads as undefined
FromJSON(x) ==
  CASE x.j = "string" -> StrOf(x.v)
    [] x.j = "object" -> [k |-> "sla", targetDate |-> StrOf(x.targetDate.v),
                          toleranceHours |-> x.toleranceHours]
    [] OTHER -> Undefined

\* File contents. A content file holds JSON text (modelled by its document
\* tree), is empty (just truncated), or holds text that is not JSON.
Absent == [t |-> "absent"]
EmptyText == [t |-> "empty"]
Malformed == [t |-> "malformed"]

StringifyTask(task) ==
  [t |-> "json", doc |-> [id |-> task.id, initiativeId |-> task.initiativeId,
                          title |-> ToJSON(task.title),
                          createdAt |-> ToJSON(task.createdAt),
                          dueDate |-> ToJSON(task.dueDate)]]

StringifyInitiative(ini) ==
  [t |-> "json", doc |-> [id |-> ini.id, name |-> ToJSON(ini.name),
                          createdAt |-> ToJSON(ini.createdAt),
                          description |-> ToJSON(ini.description)]]

StringifyContract(c) ==
  [from |-> c.from, to |-> c.to, relationshipType |-> c.relationshipType,
   sla |-> ToJSON(c.sla)]

StringifyDependencies(deps) ==
  [t |-> "json", doc |-> [list |-> [n \in 1..Len(deps) |-> StringifyContract(deps[n])]]]

\* JSON.parse(text): throws (here: ParseError) on text that is not JSON
ParseError == [k |-> "SyntaxError", v |-> ""]

ParseDoc(d) ==
  IF "list" \in DOMAIN d
  THEN [list |-> [n \in 1..Len(d.list) |->
                    [from |-> d.list[n].from, to |-> d.list[n].to,
                     relationshipType |-> d.list[n].relationshipType,
                     sla |-> FromJSON(d.list[n].sla)]]]
  ELSE IF "title" \in DOMAIN d
  THEN [id |-> d.id, initiativeId |-> d.initiativeId, title |-> FromJSON(d.title),
        createdAt |-> FromJSON(d.createdAt), dueDate |-> FromJSON(d.dueDate)]
  ELSE [id |-> d.id, name |-> FromJSON(d.name), createdAt |-> FromJSON(d.createdAt),
        description |-> FromJSON(d.description)]

JSONParse(text) == IF text.t = "json" THEN ParseDoc(text.doc) ELSE ParseError

\* the value a caller holds for a list of contracts
ListValue(deps) == [list |-> deps]

(* ------------------------------ layout -------------------------------- *)

ManifestPath(i) == [init |-> i, kind |-> "manifest", id |-> "", sig |-> FALSE]
TaskPath(i, t) == [init |-> i, kind |-> "task", id |-> t, sig |-> FALSE]
DepsPath(i) == [init |-> i, kind |-> "dependencies", id |-> "", sig |-> FALSE]
SigPath(p) == [p EXCEPT !.sig = TRUE]
NoPath == [init |-> "", kind |-> "none", id |-> "", sig |-> FALSE]

ContentPaths ==
  {ManifestPath(i) : i \in InitiativeIds} \cup {DepsPath(i) : i \in InitiativeIds}
    \cup {TaskPath(i, t) : i \in InitiativeIds, t \in TaskIds}
AllPaths == ContentPaths \cup {SigPath(p) : p \in ContentPaths}

\* a task id that is a relative path: it climbs out of the tasks directory and
\* of the initiative directory, and names a task file of initiative i
ClimbingId(i, t) == "../../" \o i \o "/tasks/" \o t
ClimbingIds == {ClimbingId(i, t) : i \in InitiativeIds, t \in TaskIds}

\* join(rootDir, initiativeId, 'tasks', `${id}.json`): join resolves the '..'
\* segments of the id, no id is refused
TaskFile(initiativeId, id) ==
  IF id \in ClimbingIds
  THEN CHOOSE path \in ContentPaths :
         path.kind = "task" /\ ClimbingId(path.init, path.id) = id
  ELSE TaskPath(initiativeId, id)

InitiativeDir(i) == [init |-> i, sub |-> ""]
TasksDir(i) == [init |-> i, sub |-> "tasks"]

(* ------------------------------ signing ------------------------------- *)

SigningKey == "test-key-123"
Sha256(content) == [sha256 |-> content]
Hmac(key, hash) == [t |-> "sig", key |-> key, over |-> hash]

\* mutant: the signature does not depend on the content
SignatureOfKeyOnly(content) == Hmac(SigningKey, Sha256(EmptyText))

SignatureOf(content) == Hmac(SigningKey, Sha256(content))

(* ------------------------------- state -------------------------------- *)

VARIABLES
  files,        \* path -> content of the file, Absent when there is none
  dirs,         \* the directories that exist under rootDir
  journal,      \* initiative id -> content of its journal.jsonl
  pc,           \* process -> the await it stands at, "idle" between calls
  loc,          \* process -> the locals of the call it is in
  ret,          \* process -> what the call that just returned has returned
  flow,         \* process -> its place in append -> write -> markComplete
  nextId,       \* the number of entry ids handed out by uuidv4
  crashes,      \* the number of process crashes so far
  modified,     \* whether something outside the program has changed a file
  lastWritten,  \* content path -> the value of the last write that signed it
  passed,       \* the tasks handed to writeTask so far (kept where reads overlap)
  overlapped,   \* whether the read in progress has run beside a write
  contracts,    \* DependencyManager.contracts: the Map, as its entries in order
  taskMap       \* MarshalTasksTool.tasks: the Map, task id -> task

vars ==
  <<files, dirs, journal, pc, loc, ret, flow, nextId, crashes, modified, lastWritten,
    passed, overlapped, contracts, taskMap>>

\* what the managers and tools keep in memory, not in files
memory == <<contracts, taskMap>>

\* what only the behaviours with an overlapping read keep track of
history == <<passed, overlapped>>

NoValue == [k |-> "none", v |-> ""]
NoCall == [op |-> "none", path |-> NoPath, value |-> NoValue,
           content |-> Absent, content2 |-> Absent]
NoRet == [op |-> "none", path |-> NoPath, value |-> NoValue]
Threw(what) == [k |-> "throw", v |-> what]
IdOf(n) == [k |-> "id", v |-> n]

\* the caller of append -> write -> markComplete: where it is, and its locals
NoFlow == [at |-> "none", entryId |-> IdOf(0), task |-> NoValue]

WriteOps == {"writeInitiative", "writeTask", "writeDependencies"}
ReadOps == {"readInitiative", "readTask", "readDependencies"}

\* the read that loads what lies at a content path
ReadOpOf(path) ==
  CASE path.kind = "manifest" -> "readInitiative"
    [] path.kind = "task" -> "readTask"
    [] OTHER -> "readDependencies"

Idle == \A q \in Procs : pc[q] = "idle"

\* the promise of the call settles with value: its caller has yet to resume
Settle(p, op, path, value) ==
  /\ pc' = [pc EXCEPT ![p] = "returned"]
  /\ ret' = [ret EXCEPT ![p] = [op |-> op, path |-> path, value |-> value]]

Return(p, value) ==
  /\ Settle(p, loc[p].op, loc[p].path, value)
  /\ loc' = [loc EXCEPT ![p] = NoCall]

\* the caller resumes with the value of the call
Resume(p) ==
  /\ pc[p] = "returned"
  /\ pc' = [pc EXCEPT ![p] = "idle"]
  /\ ret' = [ret EXCEPT ![p] = NoRet]
  /\ UNCHANGED <<files, dirs, journal, loc, flow, nextId, crashes, modified, lastWritten, history, memory>>

Goto(p, label) == pc' = [pc EXCEPT ![p] = label]

(* ------------------ FilesystemManager: file effects ------------------- *)

Stringify(op, value) ==
  CASE op = "writeTask" -> StringifyTask(value)
    [] op = "writeInitiative" -> StringifyInitiative(value)
    [] OTHER -> StringifyDependencies(value.list)

\* fs.writeFile(path, text) once it has completed
FileWritten(f, path, text) == [f EXCEPT ![path] = text]

\* fs.writeFile has opened the file (O_TRUNC) and has written nothing yet
FileTruncated(f, path) == [f EXCEPT ![path] = EmptyText]

\* mutant: a sidecar that exists is not written again
FileSignedOnce(f, path) ==
  IF f[SigPath(path)] = Absent
  THEN FileWritten(f, SigPath(path), SignatureOf(f[path]))
  ELSE f

\* signFile(path): the sidecar gets the signature of what the file holds
FileSigned(f, path) == FileWritten(f, SigPath(path), SignatureOf(f[path]))

\* ensureInitiativeDir(initiativeId)
DirsEnsured(d, initiativeId) == d \cup {InitiativeDir(initiativeId), TasksDir(initiativeId)}

\* mutant: any sidecar that holds a signature is accepted
SignatureMatchesAny(expected, content) == expected.t = "sig"

\* expectedSignature === computedSignature
SignatureMatches(expected, content) == expected = SignatureOf(content)

\* mutant: the read lets the error out instead of catching it
UnavailableRaises(op) == Threw("integrity check failed")

\* what a read returns from its catch block
Unavailable(op) == IF op = "readDependencies" THEN ListValue(<<>>) ELSE Null

\* mutant: a content file without a sidecar is taken as it is
ReadResultLenient(op, content, content2, expected) ==
  IF content = Absent \/ content2 = Absent
  THEN Unavailable(op)
  ELSE IF expected # Absent /\ ~SignatureMatches(expected, content2)
  THEN Unavailable(op)
  ELSE IF JSONParse(content) = ParseError THEN Unavailable(op) ELSE JSONParse(content)

\* the value of a read: the text of its own readFile is parsed when the text
\* that verifySignature reads matches the sidecar
ReadResult(op, content, content2, expected) ==
  IF content = Absent \/ content2 = Absent \/ expected = Absent
  THEN Unavailable(op)
  ELSE IF ~SignatureMatches(expected, content2)
  THEN Unavailable(op)
  ELSE IF JSONParse(content) = ParseError THEN Unavailable(op) ELSE JSONParse(content)

\* what a read of path returns when nothing else runs during it
ReadNow(path) ==
  ReadResult(ReadOpOf(path), files[path], files[path], files[SigPath(path)])

\* verifySignature(path) on the files as they are
Verifies(path) ==
  /\ files[path] # Absent
  /\ files[SigPath(path)] # Absent
  /\ SignatureMatches(files[SigPath(path)], files[path])

(* -------------- FilesystemManager: calls that run alone --------------- *)

\* a write from its call to its return, nothing else running meanwhile
WriteAlone(p, op, path, value) ==
  /\ pc[p] = "idle"
  /\ flow[p] = NoFlow
  /\ dirs' = DirsEnsured(dirs, path.init)
  /\ files' = FileSigned(FileWritten(files, path, Stringify(op, value)), path)
  /\ lastWritten' = [lastWritten EXCEPT ![path] = value]
  /\ Settle(p, op, path, Undefined)
  /\ UNCHANGED <<journal, loc, flow, nextId, crashes, modified, history, memory>>

writeInitiative(p, initiative) ==
  WriteAlone(p, "writeInitiative", ManifestPath(initiative.id), initiative)

\* writeTask makes the directories of task.initiativeId and writes the file
\* its join names: when that lies in a directory that does not exist,
\* fs.writeFile throws ENOENT
writeTask(p, task) ==
  LET path == TaskFile(task.initiativeId, task.id)
      made == TasksDir(path.init) \in DirsEnsured(dirs, task.initiativeId)
  IN  /\ pc[p] = "idle"
      /\ flow[p] = NoFlow
      /\ dirs' = DirsEnsured(dirs, task.initiativeId)
      /\ files' = IF made
                  THEN FileSigned(FileWritten(files, path, StringifyTask(task)), path)
                  ELSE files
      /\ lastWritten' = IF made THEN [lastWritten EXCEPT ![path] = task] ELSE lastWritten
      /\ Settle(p, "writeTask", path, IF made THEN Undefined ELSE Threw("ENOENT"))
      /\ UNCHANGED <<journal, loc, flow, nextId, crashes, modified, history, memory>>

writeDependencies(p, initiativeId, dependencies) ==
  WriteAlone(p, "writeDependencies", DepsPath(initiativeId), ListValue(dependencies))

ReadAlone(p, op, path) ==
  /\ pc[p] = "idle"
  /\ flow[p] = NoFlow
  /\ Settle(p, op, path, ReadResult(op, files[path], files[path], files[SigPath(path)]))
  /\ UNCHANGED <<files, dirs, journal, loc, flow, nextId, crashes, modified, lastWritten, history, memory>>

readInitiative(p, initiativeId) == ReadAlone(p, "readInitiative", ManifestPath(initiativeId))

readTask(p, initiativeId, taskId) == ReadAlone(p, "readTask", TaskPath(initiativeId, taskId))

readDependencies(p, initiativeId) == ReadAlone(p, "readDependencies", DepsPath(initiativeId))

\* fs.readdir(tasksDir): the names in the tasks directory of the initiative
DirEntries(f, initiativeId) ==
  {path \in AllPaths : path.kind = "task" /\ path.init = initiativeId /\ f[path] # Absent}

\* files.filter(f => f.endsWith('.json')).map(f => f.replace('.json', '')):
\* the sidecars end in .sig and are left out; [] when readdir throws. readdir
\* promises no order, the value is kept as the set of the names
ListedTasks(f, d, initiativeId) ==
  IF TasksDir(initiativeId) \in d
  THEN {path.id : path \in {q \in DirEntries(f, initiativeId) : ~q.sig}}
  ELSE {}

NamesValue(names) == [names |-> names]

TasksDirPath(i) == [init |-> i, kind |-> "tasks", id |-> "", sig |-> FALSE]

\* listTasks awaits one readdir
listTasks(p, initiativeId) ==
  /\ pc[p] = "idle"
  /\ flow[p] = NoFlow
  /\ Settle(p, "listTasks", TasksDirPath(initiativeId),
            NamesValue(ListedTasks(files, dirs, initiativeId)))
  /\ UNCHANGED <<files, dirs, journal, loc, flow, nextId, crashes, modified, lastWritten, history, memory>>

(* ------------- FilesystemManager: calls, await by await --------------- *)

\* the call is made: nothing has been awaited yet
Call(p, op, path, value, label) ==
  /\ pc[p] = "idle"
  /\ loc' = [loc EXCEPT ![p] = [NoCall EXCEPT !.op = op, !.path = path, !.value = value]]
  /\ Goto(p, label)
  /\ UNCHANGED <<files, dirs, journal, ret, flow, nextId, crashes, modified, lastWritten,
                 memory>>

BeginCall(p, op, path, value, label) ==
  Call(p, op, path, value, label) /\ UNCHANGED history

BeginWriteInitiative(p, initiative) ==
  flow[p] = NoFlow
    /\ BeginCall(p, "writeInitiative", ManifestPath(initiative.id), initiative, "mkdir")

BeginWriteTask(p, task) ==
  flow[p] = NoFlow
    /\ BeginCall(p, "writeTask", TaskPath(task.initiativeId, task.id), task, "mkdir")

BeginWriteDependencies(p, initiativeId, dependencies) ==
  flow[p] = NoFlow
    /\ BeginCall(p, "writeDependencies", DepsPath(initiativeId),
                 ListValue(dependencies), "mkdir")

\* ensureInitiativeDir: mkdir(dir), then mkdir(dir/tasks), both recursive
ensureInitiativeDir(p) ==
  /\ pc[p] = "mkdir"
  /\ dirs' = dirs \cup {InitiativeDir(loc[p].path.init)}
  /\ Goto(p, "mkdirTasks")
  /\ UNCHANGED <<files, journal, loc, ret, flow, nextId, crashes, modified, lastWritten, history, memory>>

ensureTasksDir(p) ==
  /\ pc[p] = "mkdirTasks"
  /\ dirs' = DirsEnsured(dirs, loc[p].path.init)
  /\ Goto(p, "openContent")
  /\ UNCHANGED <<files, journal, loc, ret, flow, nextId, crashes, modified, lastWritten, history, memory>>

OpenContent(p) ==
  /\ pc[p] = "openContent"
  /\ files' = FileTruncated(files, loc[p].path)
  /\ Goto(p, "writeContent")
  /\ UNCHANGED <<dirs, journal, loc, ret, flow, nextId, crashes, modified, lastWritten, history, memory>>

WriteContent(p) ==
  /\ pc[p] = "writeContent"
  /\ files' = FileWritten(files, loc[p].path, Stringify(loc[p].op, loc[p].value))
  /\ Goto(p, "signRead")
  /\ UNCHANGED <<dirs, journal, loc, ret, flow, nextId, crashes, modified, lastWritten, history, memory>>

\* signFile: the content is read back from the file
SignRead(p) ==
  /\ pc[p] = "signRead"
  /\ IF files[loc[p].path] = Absent
     THEN Return(p, Threw("ENOENT"))
     ELSE /\ loc' = [loc EXCEPT ![p].content = files[loc[p].path]]
          /\ Goto(p, "openSig")
          /\ UNCHANGED ret
  /\ UNCHANGED <<files, dirs, journal, flow, nextId, crashes, modified, lastWritten, history, memory>>

OpenSig(p) ==
  /\ pc[p] = "openSig"
  /\ files' = FileTruncated(files, SigPath(loc[p].path))
  /\ Goto(p, "writeSig")
  /\ UNCHANGED <<dirs, journal, loc, ret, flow, nextId, crashes, modified, lastWritten, history, memory>>

signFile(p) ==
  /\ pc[p] = "writeSig"
  /\ files' = FileWritten(files, SigPath(loc[p].path), SignatureOf(loc[p].content))
  /\ lastWritten' = [lastWritten EXCEPT ![loc[p].path] = loc[p].value]
  /\ Return(p, Undefined)
  /\ UNCHANGED <<dirs, journal, flow, nextId, crashes, modified, history, memory>>

\* what fs.writeFile(path, ...) leaves when it rejects: the file as it was
\* (it could not be opened: permission denied, missing directory), the file
\* emptied, or a part of the text (the disk is full)
FailedWrite(f, path) == {f, FileTruncated(f, path), FileWritten(f, path, Malformed)}

\* await fs.writeFile(path, data) rejects: nothing catches it, the write
\* operation rejects with it and signFile is not called
WriteContentFails(p) ==
  /\ pc[p] = "openContent"
  /\ files' \in FailedWrite(files, loc[p].path)
  /\ Return(p, IF files' = files THEN Threw("EACCES") ELSE Threw("ENOSPC"))
  /\ UNCHANGED <<dirs, journal, flow, nextId, crashes, modified, lastWritten, history, memory>>

\* in signFile, await fs.writeFile(`${filePath}.sig`, signature) rejects
signFileFails(p) ==
  /\ pc[p] = "openSig"
  /\ files' \in FailedWrite(files, SigPath(loc[p].path))
  /\ Return(p, IF files' = files THEN Threw("EACCES") ELSE Threw("ENOSPC"))
  /\ UNCHANGED <<dirs, journal, flow, nextId, crashes, modified, lastWritten, history, memory>>

BeginReadInitiative(p, initiativeId) ==
  flow[p] = NoFlow
    /\ BeginCall(p, "readInitiative", ManifestPath(initiativeId), NoValue, "readContent")

BeginReadTask(p, initiativeId, taskId) ==
  flow[p] = NoFlow
    /\ BeginCall(p, "readTask", TaskPath(initiativeId, taskId), NoValue, "readContent")

BeginReadDependencies(p, initiativeId) ==
  flow[p] = NoFlow
    /\ BeginCall(p, "readDependencies", DepsPath(initiativeId), NoValue, "readContent")

ReadContent(p) ==
  /\ pc[p] = "readContent"
  /\ IF files[loc[p].path] = Absent
     THEN Return(p, Unavailable(loc[p].op))
     ELSE /\ loc' = [loc EXCEPT ![p].content = files[loc[p].path]]
          /\ Goto(p, "verifyContent")
          /\ UNCHANGED ret
  /\ UNCHANGED <<files, dirs, journal, flow, nextId, crashes, modified, lastWritten, history, memory>>

\* verifySignature reads the content again, then the sidecar
VerifyContent(p) ==
  /\ pc[p] = "verifyContent"
  /\ IF files[loc[p].path] = Absent
     THEN Return(p, Unavailable(loc[p].op))
     ELSE /\ loc' = [loc EXCEPT ![p].content2 = files[loc[p].path]]
          /\ Goto(p, "verifySig")
          /\ UNCHANGED ret
  /\ UNCHANGED <<files, dirs, journal, flow, nextId, crashes, modified, lastWritten, history, memory>>

verifySignature(p) ==
  /\ pc[p] = "verifySig"
  /\ Return(p, ReadResult(loc[p].op, loc[p].content, loc[p].content2,
                          files[SigPath(loc[p].path)]))
  /\ UNCHANGED <<files, dirs, journal, flow, nextId, crashes, modified, lastWritten, history, memory>>

(* -------------------------- IntegrityManager -------------------------- *)

\* the keys a manager is constructed with
SigningKeys == {SigningKey, "another-key"}

\* the strings handed to signData and verifySignature as data
DataStrings == {EmptyText, Malformed} \cup {StringifyTask(task) : task \in Tasks}

\* mutant: the data itself is authenticated, not its digest
signDataDirect(signingKey, data) == Hmac(signingKey, data)

\* createHmac('sha256', this.signingKey).update(sha256(data)).digest('hex')
signData(signingKey, data) == Hmac(signingKey, Sha256(data))

\* the strings handed to verifySignature as signature: the signatures that
\* some manager makes, the empty string, and a string that is no hex digest
SignatureStrings ==
  {signData(k, d) : k \in SigningKeys, d \in DataStrings} \cup {EmptyText, Malformed}

BoolOf(b) == [k |-> "boolean", b |-> b]

\* mutant: the signature is compared without regard to the data
SignatureVerifiedAnyData(signingKey, data, signature) ==
  \E d \in DataStrings : signature = signData(signingKey, d)

\* expected === signature
SignatureVerified(signingKey, data, signature) == signData(signingKey, data) = signature

\* IntegrityManager.verifySignature(data, signature) of a manager with this key
IntegrityVerifySignature(p, signingKey, data, signature) ==
  /\ pc[p] = "idle"
  /\ flow[p] = NoFlow
  /\ loc' = [loc EXCEPT ![p] =
       [op |-> "verifySignature", path |-> NoPath, value |-> NoValue,
        content |-> data, content2 |-> Absent,
        signingKey |-> signingKey, signature |-> signature]]
  /\ Settle(p, "IntegrityManager.verifySignature", NoPath,
            BoolOf(SignatureVerified(signingKey, data, signature)))
  /\ UNCHANGED <<files, dirs, journal, flow, nextId, crashes, modified, lastWritten, history, memory>>

\* IntegrityManager.verifyFileIntegrity(filePath) of a manager with this key:
\* a file or sidecar that cannot be read gives false
verifyFileIntegrity(p, signingKey, filePath) ==
  /\ pc[p] = "idle"
  /\ flow[p] = NoFlow
  /\ pc' = [pc EXCEPT ![p] = "returned"]
  /\ ret' = [ret EXCEPT ![p] =
       [op |-> "verifyFileIntegrity", path |-> filePath,
        value |-> BoolOf(/\ files[filePath] # Absent
                         /\ files[SigPath(filePath)] # Absent
                         /\ SignatureVerified(signingKey, files[filePath],
                                              files[SigPath(filePath)])),
        args |-> signingKey]]
  /\ UNCHANGED <<files, dirs, journal, loc, flow, nextId, crashes, modified, lastWritten,
                 history, memory>>

(* ------------------------------ journal ------------------------------- *)

\* journal.jsonl: the lines that end in a newline, and what follows the last
\* newline (nothing, when the file ends in one)
NoTail == [t |-> "none"]
PartTail == [t |-> "part"]
WholeTail(line) == [t |-> "whole", line |-> line]
NoJournal == [exists |-> FALSE, lines |-> <<>>, tail |-> NoTail]
EmptyJournal == [exists |-> TRUE, lines |-> <<>>, tail |-> NoTail]

JournalPath(i) == [init |-> i, kind |-> "journal", id |-> "", sig |-> FALSE]

\* JSON.stringify(fullEntry): every field of an entry is a string
EntryLine(entry) == [t |-> "entry", e |-> entry]
BadLine == [t |-> "bad"]
Parses(line) == line.t = "entry"

\* { id: uuidv4(), timestamp: new Date().toISOString(), ...entry }
FullEntry(n, initiativeId, operation, payload) ==
  [id |-> n, timestamp |-> n, initiativeId |-> initiativeId, operation |-> operation,
   payload |-> payload, status |-> "pending", requestId |-> "r"]

\* content.split('\n').filter(line => line.trim())
SplitLines(j) ==
  CASE j.tail = NoTail -> j.lines
    [] j.tail = PartTail -> Append(j.lines, BadLine)
    [] OTHER -> Append(j.lines, j.tail.line)

AllParse(lines) == \A n \in 1..Len(lines) : Parses(lines[n])

\* replay: the entries in file order, or [] when readFile or a JSON.parse throws
Replay(j) ==
  IF j.exists /\ AllParse(SplitLines(j))
  THEN [n \in 1..Len(SplitLines(j)) |-> SplitLines(j)[n].e]
  ELSE <<>>

\* mutant: the line is put before the others
AppendedFirst(j, line) == [exists |-> TRUE, lines |-> <<line>> \o j.lines, tail |-> NoTail]

\* mutant: the line replaces the file (writeFile where appendFile was meant)
AppendedOver(j, line) == [exists |-> TRUE, lines |-> <<line>>, tail |-> NoTail]

\* appendFile(journalPath, entryLine): the line goes after whatever the file
\* ends in, and joins an unterminated last line
Appended(j, line) ==
  [exists |-> TRUE,
   lines |-> Append(j.lines, IF j.tail = NoTail THEN line ELSE BadLine),
   tail |-> NoTail]

\* mutant: the updated entry is dropped and the line is written back as read
UpdatedLinesNone(lines, entryId) == lines

\* mutant: the test of the id is missing, every entry is marked
UpdatedLinesAll(lines, entryId) ==
  [n \in 1..Len(lines) |-> EntryLine([lines[n].e EXCEPT !.status = "completed"])]

\* mutant: filter where map was meant, only the entry of entryId is kept
UpdatedLinesOnly(lines, entryId) ==
  IF \E n \in 1..Len(lines) : lines[n].e.id = entryId
  THEN <<EntryLine([(lines[CHOOSE n \in 1..Len(lines) : lines[n].e.id = entryId]).e
                      EXCEPT !.status = "completed"])>>
  ELSE <<>>

\* mutant: the other entries are written back as pending
UpdatedLinesReset(lines, entryId) ==
  [n \in 1..Len(lines) |->
     EntryLine([lines[n].e EXCEPT
                  !.status = IF lines[n].e.id = entryId THEN "completed" ELSE "pending"])]

\* the lines of markComplete: the entry of entryId gets status 'completed'
UpdatedLines(lines, entryId) ==
  [n \in 1..Len(lines) |->
     IF lines[n].e.id = entryId
     THEN EntryLine([lines[n].e EXCEPT !.status = "completed"])
     ELSE lines[n]]

Written(lines) == [exists |-> TRUE, lines |-> lines, tail |-> NoTail]

\* what a write of lines that stops midway has put in the file
Prefixes(lines) ==
  {[exists |-> TRUE, lines |-> SubSeq(lines, 1, k), tail |-> tail] :
     k \in 0..(Len(lines) - 1), tail \in {NoTail, PartTail}}
  \cup {[exists |-> TRUE, lines |-> SubSeq(lines, 1, k - 1), tail |-> WholeTail(lines[k])] :
          k \in 1..Len(lines)}

(* ----------------- JournalManager, calls that run alone --------------- *)

\* append, from the call to its return with nothing running beside it
appendAlone(p, initiativeId, operation, payload) ==
  /\ pc[p] = "idle"
  /\ flow[p] = NoFlow
  /\ nextId < MaxEntries
  /\ nextId' = nextId + 1
  /\ dirs' = dirs \cup {InitiativeDir(initiativeId)}
  /\ journal' = [journal EXCEPT ![initiativeId] =
       Appended(@, EntryLine(FullEntry(nextId + 1, initiativeId, operation, payload)))]
  /\ Settle(p, "append", JournalPath(initiativeId), IdOf(nextId + 1))
  /\ UNCHANGED <<files, loc, flow, crashes, modified, lastWritten, history, memory>>

\* the values of JournalEntry.status
EntryStatuses == {"pending", "completed", "failed"}

\* append of an entry with the status its caller gives it ({ id, timestamp,
\* ...entry }), from the call to its return with nothing running beside it
appendEntry(p, initiativeId, operation, payload, status) ==
  /\ pc[p] = "idle"
  /\ flow[p] = NoFlow
  /\ nextId < MaxEntries
  /\ nextId' = nextId + 1
  /\ dirs' = dirs \cup {InitiativeDir(initiativeId)}
  /\ journal' = [journal EXCEPT ![initiativeId] =
       Appended(@, EntryLine([FullEntry(nextId + 1, initiativeId, operation, payload)
                                EXCEPT !.status = status]))]
  /\ Settle(p, "append", JournalPath(initiativeId), IdOf(nextId + 1))
  /\ UNCHANGED <<files, loc, flow, crashes, modified, lastWritten, history, memory>>

\* what markComplete leaves in journal file j, and how it ends
MarkedAlone(j, entryId) ==
  IF j.exists /\ AllParse(SplitLines(j))
  THEN Written(UpdatedLines(SplitLines(j), entryId))
  ELSE j

MarkOutcome(j) ==
  IF ~j.exists THEN Threw("ENOENT")
  ELSE IF ~AllParse(SplitLines(j)) THEN Threw("SyntaxError")
  ELSE Undefined

\* markComplete, from the call to its return with nothing running beside it
markCompleteAlone(p, initiativeId, entryId) ==
  /\ pc[p] = "idle"
  /\ flow[p] = NoFlow
  /\ journal' = [journal EXCEPT ![initiativeId] = MarkedAlone(@, entryId.v)]
  /\ pc' = [pc EXCEPT ![p] = "returned"]
  /\ ret' = [ret EXCEPT ![p] = [op |-> "markComplete", path |-> JournalPath(initiativeId),
                                value |-> MarkOutcome(journal[initiativeId]),
                                args |-> entryId]]
  /\ UNCHANGED <<files, dirs, loc, flow, nextId, crashes, modified, lastWritten, history, memory>>

(* ---------------------- JournalManager, await by await ---------------- *)

JournalOps == {"append", "replay", "markComplete"}

\* append is called: uuidv4() hands out an id that was never used
BeginAppend(p, initiativeId, operation, payload) ==
  /\ pc[p] = "idle"
  /\ nextId < MaxEntries
  /\ nextId' = nextId + 1
  /\ loc' = [loc EXCEPT ![p] =
       [NoCall EXCEPT !.op = "append", !.path = JournalPath(initiativeId),
                      !.value = FullEntry(nextId + 1, initiativeId, operation, payload)]]
  /\ Goto(p, "appendMkdir")
  /\ UNCHANGED <<files, dirs, journal, ret, crashes, modified, lastWritten, history, memory>>

\* fs.mkdir(dir, { recursive: true })
appendMkdir(p) ==
  /\ pc[p] = "appendMkdir"
  /\ dirs' = dirs \cup {InitiativeDir(loc[p].path.init)}
  /\ Goto(p, "appendFile")
  /\ UNCHANGED <<files, journal, loc, ret, flow, nextId, crashes, modified, lastWritten, history, memory>>

\* fs.appendFile has put the first bytes of the line in the file
appendFilePart(p) ==
  /\ pc[p] = "appendFile"
  /\ journal' = [journal EXCEPT ![loc[p].path.init] =
       [exists |-> TRUE, lines |-> @.lines, tail |-> PartTail]]
  /\ loc' = [loc EXCEPT ![p].content =
       IF journal[loc[p].path.init].tail = NoTail THEN EmptyText ELSE Malformed]
  /\ Goto(p, "appendFileRest")
  /\ UNCHANGED <<files, dirs, ret, flow, nextId, crashes, modified, lastWritten, history, memory>>

\* fs.appendFile has put the rest of the line in the file: the call returns the id
appendFileRest(p) ==
  /\ pc[p] = "appendFileRest"
  /\ journal' = [journal EXCEPT ![loc[p].path.init] =
       [exists |-> TRUE,
        lines |-> Append(@.lines, IF loc[p].content = EmptyText
                                  THEN EntryLine(loc[p].value) ELSE BadLine),
        tail |-> NoTail]]
  /\ Return(p, IdOf(loc[p].value.id))
  /\ UNCHANGED <<files, dirs, flow, nextId, crashes, modified, lastWritten, history, memory>>

\* fs.appendFile has put the line in the file at once: the call returns the id
append(p) ==
  /\ pc[p] = "appendFile"
  /\ journal' = [journal EXCEPT ![loc[p].path.init] = Appended(@, EntryLine(loc[p].value))]
  /\ Return(p, IdOf(loc[p].value.id))
  /\ UNCHANGED <<files, dirs, flow, nextId, crashes, modified, lastWritten, history, memory>>

\* replay awaits one readFile
replay(p, initiativeId) ==
  /\ pc[p] = "idle"
  /\ flow[p] = NoFlow
  /\ Settle(p, "replay", JournalPath(initiativeId), ListValue(Replay(journal[initiativeId])))
  /\ UNCHANGED <<files, dirs, journal, loc, flow, nextId, crashes, modified, lastWritten, history, memory>>

BeginMarkComplete(p, initiativeId, entryId) ==
  /\ pc' = [pc EXCEPT ![p] = "markRead"]
  /\ loc' = [loc EXCEPT ![p] =
       [NoCall EXCEPT !.op = "markComplete", !.path = JournalPath(initiativeId),
                      !.value = entryId]]
  /\ UNCHANGED <<files, dirs, journal, nextId, crashes, modified, lastWritten, history, memory>>

\* readFile throws when there is no journal
markReadMissing(p) ==
  /\ pc[p] = "markRead"
  /\ ~journal[loc[p].path.init].exists
  /\ Return(p, Threw("ENOENT"))
  /\ UNCHANGED <<files, dirs, journal, flow, nextId, crashes, modified, lastWritten, history, memory>>

\* JSON.parse throws on a line that is not JSON
markReadMalformed(p) ==
  /\ pc[p] = "markRead"
  /\ journal[loc[p].path.init].exists
  /\ ~AllParse(SplitLines(journal[loc[p].path.init]))
  /\ Return(p, Threw("SyntaxError"))
  /\ UNCHANGED <<files, dirs, journal, flow, nextId, crashes, modified, lastWritten, history, memory>>

\* the journal is read and its lines are updated in memory
markRead(p) ==
  /\ pc[p] = "markRead"
  /\ journal[loc[p].path.init].exists
  /\ AllParse(SplitLines(journal[loc[p].path.init]))
  /\ loc' = [loc EXCEPT ![p].content =
       [t |-> "jsonl",
        lines |-> UpdatedLines(SplitLines(journal[loc[p].path.init]), loc[p].value.v)]]
  /\ Goto(p, "markOpen")
  /\ UNCHANGED <<files, dirs, journal, ret, flow, nextId, crashes, modified, lastWritten, history, memory>>

\* mutant: opening the file for writing leaves its text in place
JournalUntouched(j) == j

\* the file once fs.writeFile has opened it with flag 'w'
Truncated(j) == EmptyJournal

\* fs.writeFile opens the journal, which empties it
markOpen(p) ==
  /\ pc[p] = "markOpen"
  /\ journal' = [journal EXCEPT ![loc[p].path.init] = Truncated(@)]
  /\ Goto(p, "markWrite")
  /\ UNCHANGED <<files, dirs, loc, ret, flow, nextId, crashes, modified, lastWritten, history, memory>>

\* fs.writeFile has put a part of the new text in the file
markWritePart(p) ==
  /\ pc[p] = "markWrite"
  /\ \E j \in Prefixes(loc[p].content.lines) \ {EmptyJournal} :
       journal' = [journal EXCEPT ![loc[p].path.init] = j]
  /\ Goto(p, "markWriteRest")
  /\ UNCHANGED <<files, dirs, loc, ret, flow, nextId, crashes, modified, lastWritten, history, memory>>

\* mutant: the file is opened with flag 'a', the text goes after what is there
RewrittenAtEnd(j, lines) ==
  {[exists |-> TRUE, lines |-> SplitLines(j) \o lines, tail |-> NoTail]}

\* what the file can hold once fs.writeFile has written the lines from the start
\* of the file it emptied, when the file holds j by then: lines that another
\* call appended in between are overwritten, and what of them reaches beyond
\* the new text stays behind it as a line that is not JSON
Rewritten(j, lines) ==
  {Written(lines)} \cup (IF j = EmptyJournal THEN {} ELSE {Written(Append(lines, BadLine))})

\* fs.writeFile has put all of the new text in the file: the call returns
markComplete(p) ==
  /\ pc[p] \in {"markWrite", "markWriteRest"}
  /\ \E j \in (IF pc[p] = "markWrite"
               THEN Rewritten(journal[loc[p].path.init], loc[p].content.lines)
               ELSE {Written(loc[p].content.lines)}) :
       journal' = [journal EXCEPT ![loc[p].path.init] = j]
  /\ pc' = [pc EXCEPT ![p] = "returned"]
  /\ ret' = [ret EXCEPT ![p] = [op |-> "markComplete", path |-> loc[p].path,
                                value |-> Undefined, args |-> loc[p].value]]
  /\ loc' = [loc EXCEPT ![p] = NoCall]
  /\ UNCHANGED <<files, dirs, flow, nextId, crashes, modified, lastWritten, history, memory>>

(* ---------------- the caller: append -> write -> markComplete ---------- *)

\* the intended write of task is recorded
FlowAppend(p, task) ==
  /\ flow[p] = NoFlow
  /\ BeginAppend(p, task.initiativeId, "writeTask", task.id)
  /\ flow' = [flow EXCEPT ![p] = [NoFlow EXCEPT !.at = "append", !.task = task]]

\* append has returned the entry id: the task is written
FlowWrite(p) ==
  /\ pc[p] = "returned"
  /\ flow[p].at = "append"
  /\ flow' = [flow EXCEPT ![p].at = "write", ![p].entryId = ret[p].value]
  /\ loc' = [loc EXCEPT ![p] =
       [NoCall EXCEPT !.op = "writeTask",
                      !.path = TaskPath(flow[p].task.initiativeId, flow[p].task.id),
                      !.value = flow[p].task]]
  /\ pc' = [pc EXCEPT ![p] = "mkdir"]
  /\ ret' = [ret EXCEPT ![p] = NoRet]
  /\ UNCHANGED <<files, dirs, journal, nextId, crashes, modified, lastWritten, history, memory>>

\* writeTask has returned: the entry is marked complete
FlowMark(p) ==
  /\ pc[p] = "returned"
  /\ flow[p].at = "write"
  /\ flow' = [flow EXCEPT ![p].at = "mark"]
  /\ BeginMarkComplete(p, flow[p].task.initiativeId, flow[p].entryId)
  /\ ret' = [ret EXCEPT ![p] = NoRet]

\* markComplete has returned or thrown: the caller is done
FlowEnd(p) ==
  /\ pc[p] = "returned"
  /\ flow[p].at = "mark"
  /\ flow' = [flow EXCEPT ![p] = NoFlow]
  /\ pc' = [pc EXCEPT ![p] = "idle"]
  /\ ret' = [ret EXCEPT ![p] = NoRet]
  /\ UNCHANGED <<files, dirs, journal, loc, nextId, crashes, modified, lastWritten, history, memory>>

(* ------------------------- DependencyManager -------------------------- *)

\* the longest list of contracts handed to loadContracts
MaxContracts == 3

\* the task ids that contracts and task lists name
CycleIds == {"A", "B", "C"}
PairIds == {"A", "B"}

\* DependencyContract, its from and to drawn from ids
ContractsOver(ids) == [from : ids, to : ids, relationshipType : {"blocks"}]

\* the lists of at most MaxContracts contracts over ids
ContractListsOver(ids) ==
  UNION {[1..n -> ContractsOver(ids)] : n \in 0..MaxContracts}

\* `${contract.from}-${contract.to}`
ContractKey(contract) == contract.from \o "-" \o contract.to

\* this.contracts.set(key, [...(this.contracts.get(key) || []), contract]): a
\* Map keeps its keys in the order they were first set
MapSet(map, contract) ==
  IF \E n \in 1..Len(map) : map[n].key = ContractKey(contract)
  THEN [n \in 1..Len(map) |->
          IF map[n].key = ContractKey(contract)
          THEN [key |-> map[n].key, list |-> Append(map[n].list, contract)]
          ELSE map[n]]
  ELSE Append(map, [key |-> ContractKey(contract), list |-> <<contract>>])

\* for (const contract of contracts) ... set(...)
RECURSIVE LoadedFrom(_, _, _)
LoadedFrom(map, list, k) ==
  IF k > Len(list) THEN map ELSE LoadedFrom(MapSet(map, list[k]), list, k + 1)

\* mutant: the Map is not cleared
LoadedOnto(map, list) == LoadedFrom(map, list, 1)

\* this.contracts.clear(), then every contract of the list is set
Loaded(map, list) == LoadedFrom(<<>>, list, 1)

\* for (const contract of this.contracts.values()) for (const c of contract):
\* the contracts in the order the loops of the queries meet them
RECURSIVE HeldFrom(_, _)
HeldFrom(map, n) == IF n > Len(map) THEN <<>> ELSE map[n].list \o HeldFrom(map, n + 1)

Held(map) == HeldFrom(map, 1)

\* a synchronous method returns: what it was called with, and its value
Answer(p, op, args, value) ==
  /\ pc[p] = "idle"
  /\ flow[p] = NoFlow
  /\ pc' = [pc EXCEPT ![p] = "returned"]
  /\ ret' = [ret EXCEPT ![p] = [op |-> op, path |-> NoPath, value |-> value, args |-> args]]

loadContracts(p, list) ==
  /\ Answer(p, "loadContracts", list, Undefined)
  /\ contracts' = Loaded(contracts, list)
  /\ UNCHANGED <<files, dirs, journal, loc, flow, nextId, crashes, modified, lastWritten,
                 history, taskMap>>

\* mutant: the contracts that name the task at either end
BlockedEitherEnd(held, taskId) ==
  SelectSeq(held, LAMBDA c : c.from = taskId \/ c.to = taskId)

\* if (c.from === taskId)
BlockedBy(held, taskId) == SelectSeq(held, LAMBDA c : c.from = taskId)

\* if (c.to === taskId)
DependedOn(held, taskId) == SelectSeq(held, LAMBDA c : c.to = taskId)

\* blocked.push(c.to)
BlockedTasks(held, taskId) ==
  [n \in 1..Len(BlockedBy(held, taskId)) |-> BlockedBy(held, taskId)[n].to]

\* dependencies.push(c.from)
Dependencies(held, taskId) ==
  [n \in 1..Len(DependedOn(held, taskId)) |-> DependedOn(held, taskId)[n].from]

getBlockedTasks(p, taskId) ==
  /\ Answer(p, "getBlockedTasks", taskId, ListValue(BlockedTasks(Held(contracts), taskId)))
  /\ UNCHANGED <<files, dirs, journal, loc, flow, nextId, crashes, modified, lastWritten,
                 history, memory>>

getDependencies(p, taskId) ==
  /\ Answer(p, "getDependencies", taskId, ListValue(Dependencies(Held(contracts), taskId)))
  /\ UNCHANGED <<files, dirs, journal, loc, flow, nextId, crashes, modified, lastWritten,
                 history, memory>>

\* mutant: only the first contract from node is followed
NeighboursFirstOnly(held, node) ==
  [n \in 1..(IF Len(BlockedBy(held, node)) > 0 THEN 1 ELSE 0) |-> BlockedBy(held, node)[n].to]

\* graph.get(node) || []: the to of the contracts from node, in loop order
Neighbours(held, node) ==
  [n \in 1..Len(BlockedBy(held, node)) |-> BlockedBy(held, node)[n].to]

\* path.indexOf(node)
IndexOf(path, node) == CHOOSE n \in 1..Len(path) :
  path[n] = node /\ \A m \in 1..(n - 1) : path[m] # node

\* cycles, visited and recursionStack before any dfs; expanded lists the nodes
\* whose neighbours have been looped over, in the order this was begun
NoSearch == [cycles |-> <<>>, visited |-> {}, recursionStack |-> {}, expanded |-> <<>>]

\* mutant: the whole active path is recorded
RevisitedWholePath(search, node, path) == [search EXCEPT !.cycles = Append(@, path)]

\* mutant: a node met again on the active path is passed over
RevisitedSkipped(search, node, path) == search

\* mutant: the cycle is recorded twice
RevisitedTwice(search, node, path) ==
  [search EXCEPT !.cycles = Append(Append(@, SubSeq(path, IndexOf(path, node), Len(path))),
                                   SubSeq(path, IndexOf(path, node), Len(path)))]

\* cycles.push(path.slice(cycleStart))
Revisited(search, node, path) ==
  [search EXCEPT !.cycles = Append(@, SubSeq(path, IndexOf(path, node), Len(path)))]

\* mutant: the node is not added to visited
EnteredUnmarked(search, node) ==
  [search EXCEPT !.recursionStack = @ \cup {node}, !.expanded = Append(@, node)]

\* visited.add(node); recursionStack.add(node), before the loop over the
\* neighbours of node
Entered(search, node) ==
  [search EXCEPT !.visited = @ \cup {node},
                 !.recursionStack = @ \cup {node},
                 !.expanded = Append(@, node)]

\* dfs(node, path), and its loop over the neighbours from the k-th on
RECURSIVE dfs(_, _, _, _)
RECURSIVE dfsEach(_, _, _, _, _)
dfs(held, search, node, path) ==
  IF node \in search.recursionStack
  THEN Revisited(search, node, path)
  ELSE IF node \in search.visited
  THEN search
  ELSE LET left == dfsEach(held, Entered(search, node), Neighbours(held, node), 1,
                           Append(path, node))
       IN  [left EXCEPT !.recursionStack = @ \ {node}]

dfsEach(held, search, neighbours, k, path) ==
  IF k > Len(neighbours)
  THEN search
  ELSE dfsEach(held, dfs(held, search, neighbours[k], path), neighbours, k + 1, path)

\* for (const taskId of taskIds) if (!visited.has(taskId)) dfs(taskId, [])
RECURSIVE SearchedFrom(_, _, _, _)
SearchedFrom(held, search, taskIds, k) ==
  IF k > Len(taskIds)
  THEN search
  ELSE SearchedFrom(held,
                    IF taskIds[k] \in search.visited
                    THEN search
                    ELSE dfs(held, search, taskIds[k], <<>>),
                    taskIds, k + 1)

\* return cycles
CyclesFrom(held, search, taskIds, k) == SearchedFrom(held, search, taskIds, k).cycles

\* the lists of ids handed to detectCycles: ids in any order, none twice
TaskIdListsOver(ids) ==
  {list \in UNION {[1..n -> ids] : n \in 0..Cardinality(ids)} :
     \A n, m \in 1..Len(list) : list[n] = list[m] => n = m}

detectCycles(p, taskIds) ==
  /\ Answer(p, "detectCycles", taskIds,
            ListValue(CyclesFrom(Held(contracts), NoSearch, taskIds, 1)))
  /\ UNCHANGED <<files, dirs, journal, loc, flow, nextId, crashes, modified, lastWritten,
                 history, memory>>

\* the days the dates of the supplied tasks fall on
NumDays == 2

\* a Date, by its time value
DateAt(n) == [k |-> "date", t |-> n]

\* Array<{ id; dueDate?; createdAt }>: lists of tasks over ids, no id twice
DatedTasksOver(ids) ==
  [id : ids, dueDate : {Undefined} \cup {DateAt(n) : n \in 1..NumDays},
   createdAt : {DateAt(n) : n \in 1..NumDays}]

DatedTaskListsOver(ids) ==
  {list \in UNION {[1..n -> DatedTasksOver(ids)] : n \in 0..Cardinality(ids)} :
     \A n, m \in 1..Len(list) : list[n].id = list[m].id => n = m}

\* tasks.find(t => t.id === id): the first such task, or undefined
Find(tasks, id) ==
  IF \E n \in 1..Len(tasks) : tasks[n].id = id
  THEN tasks[CHOOSE n \in 1..Len(tasks) :
               tasks[n].id = id /\ \A m \in 1..(n - 1) : tasks[m].id # id]
  ELSE Undefined

\* task.dueDate || task.createdAt: a Date is truthy, undefined is not
EffectiveDate(task) == IF task.dueDate = Undefined THEN task.createdAt ELSE task.dueDate

\* mutant: toDate <= fromDate
OutOfOrderOrEqual(toTask, fromTask) == EffectiveDate(toTask).t <= EffectiveDate(fromTask).t

\* toDate < fromDate: Dates compare by their time values
OutOfOrder(toTask, fromTask) == EffectiveDate(toTask).t < EffectiveDate(fromTask).t

\* `Task ${c.to} has due date before dependency ${c.from}`
Violation(c) == "Task " \o c.to \o " has due date before dependency " \o c.from

\* the contracts for which a violation is pushed, in loop order
Violating(held, tasks) ==
  SelectSeq(held, LAMBDA c :
    /\ Find(tasks, c.from) # Undefined
    /\ Find(tasks, c.to) # Undefined
    /\ OutOfOrder(Find(tasks, c.to), Find(tasks, c.from)))

validateChronologicalOrder(p, tasks) ==
  /\ Answer(p, "validateChronologicalOrder", tasks,
            ListValue([n \in 1..Len(Violating(Held(contracts), tasks)) |->
                         Violation(Violating(Held(contracts), tasks)[n])]))
  /\ UNCHANGED <<files, dirs, journal, loc, flow, nextId, crashes, modified, lastWritten,
                 history, memory>>

(* -------------------------- MarshalTasksTool -------------------------- *)

\* this.logger: the constructor sets _logger, and the class has no property
\* logger, so the read gives undefined
Logger == Undefined

\* the ids uuidv4 hands out to created tasks, and the ids requests name
ToolTaskIds == {"t1", "t2"}

\* params.task: id, title and assignee, each supplied or not
RequestTasks ==
  [id : {Undefined} \cup {StrOf(i) : i \in ToolTaskIds},
   title : {Undefined, StrOf(""), StrOf("alpha")},
   assignee : {Undefined, StrOf("ann")}]

\* MarshalTasksParams, for the actions that change the store
Requests ==
  [action : {"create", "update", "assign", "complete"}, task : {Undefined} \cup RequestTasks]

\* this.tasks.set(id, task)
MapPut(store, id, task) ==
  [i \in DOMAIN store \cup {id} |-> IF i = id THEN task ELSE store[i]]

\* what a method leaves in the store, and what it returns or throws
Outcome(store, value) == [store |-> store, value |-> value]

\* !x for a string or undefined
Falsy(x) == x = Undefined \/ x = StrOf("")

\* TaskSchema.parse(task): the title has at least one character
ValidTask(task) == task.title # StrOf("")

createTask(store, params, fresh, now) ==
  IF params.task = Undefined
  THEN Outcome(store, Threw("ValidationError"))
  ELSE LET task == [id |-> fresh,
                    title |-> IF Falsy(params.task.title) THEN StrOf("Untitled Task")
                              ELSE params.task.title,
                    assignee |-> params.task.assignee,
                    status |-> "pending",
                    createdAt |-> DateAt(now),
                    updatedAt |-> DateAt(now)]
       IN  IF ValidTask(task)
           THEN Outcome(MapPut(store, fresh, task), task)
           ELSE Outcome(store, Threw("ValidationError"))

updateTask(store, params, now) ==
  IF params.task = Undefined \/ Falsy(params.task.id)
  THEN Outcome(store, Threw("ValidationError"))
  ELSE IF params.task.id.v \notin DOMAIN store
  THEN Outcome(store, Threw("NotFoundError"))
  ELSE LET existingTask == store[params.task.id.v]
           updatedTask ==
             [existingTask EXCEPT
                !.title = IF params.task.title = Undefined THEN @ ELSE params.task.title,
                !.assignee = IF params.task.assignee = Undefined THEN @
                             ELSE params.task.assignee,
                !.updatedAt = DateAt(now)]
       IN  IF ValidTask(updatedTask)
           THEN Outcome(MapPut(store, updatedTask.id, updatedTask), updatedTask)
           ELSE Outcome(store, Threw("ValidationError"))

assignTask(store, params, now) ==
  IF params.task = Undefined \/ Falsy(params.task.id) \/ Falsy(params.task.assignee)
  THEN Outcome(store, Threw("ValidationError"))
  ELSE IF params.task.id.v \notin DOMAIN store
  THEN Outcome(store, Threw("NotFoundError"))
  ELSE LET task == [store[params.task.id.v] EXCEPT !.assignee = params.task.assignee,
                                                   !.updatedAt = DateAt(now)]
       IN  Outcome(MapPut(store, task.id, task), task)

completeTask(store, params, now) ==
  IF params.task = Undefined \/ Falsy(params.task.id)
  THEN Outcome(store, Threw("ValidationError"))
  ELSE IF params.task.id.v \notin DOMAIN store
  THEN Outcome(store, Threw("NotFoundError"))
  ELSE LET task == [store[params.task.id.v] EXCEPT !.status = "completed",
                                                   !.updatedAt = DateAt(now)]
       IN  Outcome(MapPut(store, task.id, task), task)

\* switch (params.action)
Dispatched(store, params, fresh, now) ==
  CASE params.action = "create" -> createTask(store, params, fresh, now)
    [] params.action = "update" -> updateTask(store, params, now)
    [] params.action = "assign" -> assignTask(store, params, now)
    [] params.action = "complete" -> completeTask(store, params, now)

\* execute(params, requestId): its first statement is this.logger.info(...),
\* before the try; a method of undefined cannot be called
execute(p, params) ==
  \E fresh \in ToolTaskIds, now \in 1..NumDays :
    /\ params.action = "create" => fresh \notin DOMAIN taskMap
    /\ LET outcome == IF Logger = Undefined
                      THEN Outcome(taskMap, Threw("TypeError"))
                      ELSE Dispatched(taskMap, params, fresh, now)
       IN  /\ Answer(p, "execute", params, outcome.value)
           /\ taskMap' = outcome.store
    /\ UNCHANGED <<files, dirs, journal, loc, flow, nextId, crashes, modified, lastWritten,
                   history, contracts>>

(* --------------------------- initial state ---------------------------- *)

\* the store is empty and nothing runs
Constructed ==
  /\ files = [path \in AllPaths |-> Absent]
  /\ dirs = {}
  /\ journal = [i \in InitiativeIds |-> NoJournal]
  /\ pc = [p \in Procs |-> "idle"]
  /\ loc = [p \in Procs |-> NoCall]
  /\ ret = [p \in Procs |-> NoRet]
  /\ flow = [p \in Procs |-> NoFlow]
  /\ nextId = 0
  /\ crashes = 0
  /\ modified = FALSE
  /\ lastWritten = [path \in ContentPaths |-> NoValue]
  /\ passed = {}
  /\ overlapped = FALSE
  /\ taskMap = <<>>

Init ==
  /\ Constructed
  /\ contracts = <<>>

\* a DependencyManager that has loaded some list of contracts over CycleIds
InitLoaded ==
  /\ Constructed
  /\ contracts \in {Loaded(<<>>, list) : list \in ContractListsOver(CycleIds)}

(* ------------------- crash and external modification ------------------ *)

\* The process dies: every call in flight is gone, the files stay as they are.
CrashWithin(limit) ==
  /\ ~Idle
  /\ crashes < limit
  /\ crashes' = crashes + 1
  /\ pc' = [p \in Procs |-> "idle"]
  /\ loc' = [p \in Procs |-> NoCall]
  /\ ret' = [p \in Procs |-> NoRet]
  /\ flow' = [p \in Procs |-> NoFlow]
  /\ contracts' = <<>>
  /\ taskMap' = <<>>
  /\ UNCHANGED <<files, dirs, journal, nextId, modified, lastWritten, history>>

Crash == CrashWithin(MaxCrashes)

\* the texts something other than FilesystemManager may leave in a content file
ForeignTexts(path) ==
  {EmptyText, Malformed}
    \cup (IF path.kind = "task"
          THEN {StringifyTask(v) : v \in {w \in Tasks : TaskPath(w.initiativeId, w.id) = path}}
          ELSE IF path.kind = "manifest"
          THEN {StringifyInitiative(v) : v \in {w \in Initiatives : w.id = path.init}}
          ELSE {StringifyDependencies(v) : v \in DependencyLists})

\* a content file is changed, between two calls, and its sidecar is not
Tamper(path, text) ==
  /\ Idle
  /\ ~modified
  /\ files[path] # Absent
  /\ text # files[path]
  /\ files' = [files EXCEPT ![path] = text]
  /\ modified' = TRUE
  /\ UNCHANGED <<dirs, journal, pc, loc, ret, flow, nextId, crashes, lastWritten, history, memory>>

\* the sidecar of path is replaced by a copy of the sidecar of other
SwapSidecar(path, other) ==
  /\ Idle
  /\ ~modified
  /\ path # other
  /\ files[path] # Absent
  /\ files[SigPath(other)] # Absent
  /\ files' = [files EXCEPT ![SigPath(path)] = files[SigPath(other)]]
  /\ modified' = TRUE
  /\ UNCHANGED <<dirs, journal, pc, loc, ret, flow, nextId, crashes, lastWritten, history, memory>>

\* something that holds the signing key stores text that is not JSON in a
\* content file, with the sidecar that signs it
StoreSigned(path, text) ==
  /\ Idle
  /\ ~modified
  /\ files' = [files EXCEPT ![path] = text, ![SigPath(path)] = SignatureOf(text)]
  /\ modified' = TRUE
  /\ UNCHANGED <<dirs, journal, pc, loc, ret, flow, nextId, crashes, lastWritten, history, memory>>

\* a content file is copied, with its sidecar, to another place of the store
CopyWithSidecar(from, to) ==
  /\ Idle
  /\ ~modified
  /\ from # to
  /\ files[from] # Absent
  /\ files[SigPath(from)] # Absent
  /\ files' = [files EXCEPT ![to] = files[from], ![SigPath(to)] = files[SigPath(from)]]
  /\ dirs' = DirsEnsured(dirs, to.init)
  /\ modified' = TRUE
  /\ UNCHANGED <<journal, pc, loc, ret, flow, nextId, crashes, lastWritten, history, memory>>

(* --------------------------- specifications --------------------------- *)

\* the one caller of the specifications in which calls do not overlap
Caller == "p1"

\* the calls a caller makes on the objects stored at the paths of scope
WriteCall(p, scope) ==
  \/ \E initiative \in Initiatives :
       ManifestPath(initiative.id) \in scope /\ writeInitiative(p, initiative)
  \/ \E task \in Tasks :
       TaskPath(task.initiativeId, task.id) \in scope /\ writeTask(p, task)
  \/ \E i \in InitiativeIds, deps \in DependencyLists :
       DepsPath(i) \in scope /\ writeDependencies(p, i, deps)

ReadCall(p, scope) ==
  \/ \E i \in InitiativeIds : ManifestPath(i) \in scope /\ readInitiative(p, i)
  \/ \E i \in InitiativeIds, t \in TaskIds : TaskPath(i, t) \in scope /\ readTask(p, i, t)
  \/ \E i \in InitiativeIds : DepsPath(i) \in scope /\ readDependencies(p, i)

\* The caller serializes its calls and nothing else touches the files.
NextSerial ==
  \/ WriteCall(Caller, ContentPaths)
  \/ ReadCall(Caller, ContentPaths)
  \/ Resume(Caller)

SpecSerial == Init /\ [][NextSerial]_vars

\* the objects of the behaviours with a fault: all of initiative X, and the
\* dependencies of initiative Y (the one file whose text can equal another's)
FaultScope ==
  {ManifestPath("X"), TaskPath("X", "T1"), DepsPath("X"), DepsPath("Y")}

\* Serialized calls, and one modification of a file from outside the program.
NextModified ==
  \/ WriteCall(Caller, FaultScope)
  \/ ReadCall(Caller, FaultScope)
  \/ Resume(Caller)
  \/ \E path \in FaultScope : \E text \in ForeignTexts(path) : Tamper(path, text)
  \/ \E path \in FaultScope, other \in FaultScope : SwapSidecar(path, other)

SpecModified == Init /\ [][NextModified]_vars

\* the awaits of a write and of a read
WriteStep(p) ==
  \/ ensureInitiativeDir(p)
  \/ ensureTasksDir(p)
  \/ OpenContent(p)
  \/ WriteContent(p)
  \/ SignRead(p)
  \/ OpenSig(p)
  \/ signFile(p)

ReadStep(p) ==
  \/ ReadContent(p)
  \/ VerifyContent(p)
  \/ verifySignature(p)

BeginWrite(p, scope) ==
  \/ \E initiative \in Initiatives :
       ManifestPath(initiative.id) \in scope /\ BeginWriteInitiative(p, initiative)
  \/ \E task \in Tasks :
       TaskPath(task.initiativeId, task.id) \in scope /\ BeginWriteTask(p, task)
  \/ \E i \in InitiativeIds, deps \in DependencyLists :
       DepsPath(i) \in scope /\ BeginWriteDependencies(p, i, deps)

BeginRead(p, scope) ==
  \/ \E i \in InitiativeIds : ManifestPath(i) \in scope /\ BeginReadInitiative(p, i)
  \/ \E i \in InitiativeIds, t \in TaskIds :
       TaskPath(i, t) \in scope /\ BeginReadTask(p, i, t)
  \/ \E i \in InitiativeIds : DepsPath(i) \in scope /\ BeginReadDependencies(p, i)

\* the objects of the behaviours with a crash: one of each kind
CrashScope == {ManifestPath("X"), TaskPath("X", "T1"), DepsPath("X")}

\* Serialized calls; the process may crash between any two awaits, and a task
\* file may once be found holding signed text that is not JSON.
NextCrash ==
  \/ BeginWrite(Caller, CrashScope)
  \/ BeginRead(Caller, CrashScope)
  \/ WriteStep(Caller)
  \/ ReadStep(Caller)
  \/ Resume(Caller)
  \/ Crash
  \/ StoreSigned(TaskPath("X", "T1"), Malformed)

SpecCrash == Init /\ [][NextCrash]_vars

\* the task file the overlapping calls work on
SharedTask == TaskPath("X", "T1")
SharedTasks == {task \in Tasks : TaskPath(task.initiativeId, task.id) = SharedTask}

\* Callers that do not serialize: calls on one task overlap in any way.
NextOverlap ==
  \E p \in Procs :
    \/ \E task \in SharedTasks : BeginWriteTask(p, task)
    \/ BeginReadTask(p, SharedTask.init, SharedTask.id)
    \/ WriteStep(p)
    \/ ReadStep(p)
    \/ Resume(p)

SpecOverlap == Init /\ [][NextOverlap]_vars

\* One caller writes the task, call after call; another reads it at any time.
Writer == "p1"
Reader == "p2"
Writing == pc[Writer] \notin {"idle", "returned"}
Reading == pc[Reader] \notin {"idle", "returned"}

\* writeTask is called: the task is noted, and the read in progress overlaps it
BeginWriteTaskBeside(p, task) ==
  /\ flow[p] = NoFlow
  /\ Call(p, "writeTask", TaskPath(task.initiativeId, task.id), task, "mkdir")
  /\ passed' = passed \cup {task}
  /\ overlapped' = Reading

\* readTask is called: it overlaps the write in progress
BeginReadTaskBeside(p, initiativeId, taskId) ==
  /\ Call(p, "readTask", TaskPath(initiativeId, taskId), NoValue, "readContent")
  /\ overlapped' = Writing
  /\ UNCHANGED passed

NextReadWrite ==
  \/ \E task \in SharedTasks : BeginWriteTaskBeside(Writer, task)
  \/ BeginReadTaskBeside(Reader, SharedTask.init, SharedTask.id)
  \/ WriteStep(Writer)
  \/ ReadStep(Reader)
  \/ Resume(Writer)
  \/ Resume(Reader)

SpecReadWrite == Init /\ [][NextReadWrite]_vars

\* One caller runs append -> write -> markComplete for the shared task, one run
\* after the other; the process may crash between any two awaits and is then
\* started again; replay and markComplete are also called on their own.
JournalStep(p) ==
  \/ appendMkdir(p)
  \/ appendFilePart(p)
  \/ appendFileRest(p)
  \/ append(p)
  \/ markReadMissing(p)
  \/ markReadMalformed(p)
  \/ markRead(p)
  \/ markOpen(p)
  \/ markWritePart(p)
  \/ markComplete(p)

\* markComplete is called on its own, for an entry id that append has returned
CallMarkComplete(p, initiativeId, entryId) ==
  /\ pc[p] = "idle"
  /\ flow[p] = NoFlow
  /\ entryId.v <= nextId
  /\ BeginMarkComplete(p, initiativeId, entryId)
  /\ UNCHANGED <<ret, flow>>

\* the caller resumes after a call it made on its own
ResumeAlone(p) == flow[p] = NoFlow /\ Resume(p)

FlowCrash == CrashWithin(MaxFlowCrashes)

NextFlow ==
  \/ \E task \in SharedTasks : FlowAppend(Caller, task)
  \/ FlowWrite(Caller)
  \/ FlowMark(Caller)
  \/ FlowEnd(Caller)
  \/ JournalStep(Caller)
  \/ WriteStep(Caller)
  \/ \E i \in InitiativeIds : replay(Caller, i)
  \/ \E i \in InitiativeIds, n \in 1..MaxEntries : CallMarkComplete(Caller, i, IdOf(n))
  \/ ResumeAlone(Caller)
  \/ FlowCrash

SpecFlow == Init /\ [][NextFlow]_vars

\* One caller uses the journals of the initiatives, call after call, and
\* nothing else touches them.
NextJournal ==
  \/ \E i \in InitiativeIds, op \in WriteOps, t \in TaskIds : appendAlone(Caller, i, op, t)
  \/ \E i \in InitiativeIds, n \in 1..MaxEntries : markCompleteAlone(Caller, i, IdOf(n))
  \/ \E i \in InitiativeIds : replay(Caller, i)
  \/ Resume(Caller)

SpecJournal == Init /\ [][NextJournal]_vars

\* append is called on its own
CallAppend(p, initiativeId, operation, payload) ==
  /\ flow[p] = NoFlow
  /\ BeginAppend(p, initiativeId, operation, payload)
  /\ UNCHANGED flow

\* the awaits of append and markComplete, each write done at once
JournalAwait(p) ==
  \/ appendMkdir(p)
  \/ append(p)
  \/ markReadMissing(p)
  \/ markReadMalformed(p)
  \/ markRead(p)
  \/ markOpen(p)
  \/ markComplete(p)

\* the journal the overlapping calls work on
SharedJournal == "X"

\* Callers that do not serialize: append, markComplete and replay on one
\* journal overlap in any way.
NextJournalOverlap ==
  \E p \in Procs :
    \/ \E t \in TaskIds : CallAppend(p, SharedJournal, "writeTask", t)
    \/ \E n \in 1..MaxEntries : CallMarkComplete(p, SharedJournal, IdOf(n))
    \/ replay(p, SharedJournal)
    \/ JournalAwait(p)
    \/ Resume(p)

SpecJournalOverlap == Init /\ [][NextJournalOverlap]_vars

\* the tasks a caller may pass to writeTask: an id is any string
WritableTasks ==
  [id : TaskIds \cup ClimbingIds, initiativeId : InitiativeIds,
   title : {StrOf(t) : t \in Titles},
   createdAt : {DateOf("2024-01-05T00:00:00.000Z")},
   dueDate : {Undefined}]

\* The caller serializes its calls: it writes, reads and lists tasks.
NextListing ==
  \/ \E task \in WritableTasks : writeTask(Caller, task)
  \/ \E i \in InitiativeIds, t \in TaskIds : readTask(Caller, i, t)
  \/ \E i \in InitiativeIds : listTasks(Caller, i)
  \/ Resume(Caller)

SpecListing == Init /\ [][NextListing]_vars

\* the task files of the store
TaskFiles == {TaskPath(i, t) : i \in InitiativeIds, t \in TaskIds}

\* Serialized writes, reads and listings of tasks, and one modification of a
\* task file from outside the program.
NextListingModified ==
  \/ \E task \in Tasks : writeTask(Caller, task)
  \/ \E i \in InitiativeIds, t \in TaskIds : readTask(Caller, i, t)
  \/ \E i \in InitiativeIds : listTasks(Caller, i)
  \/ Resume(Caller)
  \/ \E path \in TaskFiles : \E text \in ForeignTexts(path) : Tamper(path, text)

SpecListingModified == Init /\ [][NextListingModified]_vars

\* IntegrityManager is called with any data and any signature string.
NextIntegrity ==
  \/ \E k \in SigningKeys, d \in DataStrings, g \in SignatureStrings :
       IntegrityVerifySignature(Caller, k, d, g)
  \/ Resume(Caller)

SpecIntegrity == Init /\ [][NextIntegrity]_vars

\* detectCycles is called, with any list of ids, on any loaded contracts.
NextCycles ==
  \/ \E taskIds \in TaskIdListsOver(CycleIds) : detectCycles(Caller, taskIds)
  \/ Resume(Caller)

SpecCycles == InitLoaded /\ [][NextCycles]_vars

\* One DependencyManager: contracts are loaded again and again, and queried.
NextDependencies ==
  \/ \E list \in ContractListsOver(PairIds) : loadContracts(Caller, list)
  \/ \E taskIds \in TaskIdListsOver(PairIds) : detectCycles(Caller, taskIds)
  \/ \E tasks \in DatedTaskListsOver(PairIds) : validateChronologicalOrder(Caller, tasks)
  \/ \E taskId \in CycleIds : getBlockedTasks(Caller, taskId)
  \/ \E taskId \in CycleIds : getDependencies(Caller, taskId)
  \/ Resume(Caller)

SpecDependencies == Init /\ [][NextDependencies]_vars

\* Serialized calls; the file system may refuse or cut short any write.
NextWriteFailure ==
  \/ \E task \in SharedTasks : BeginWriteTask(Caller, task)
  \/ \E deps \in DependencyLists : BeginWriteDependencies(Caller, SharedTask.init, deps)
  \/ WriteStep(Caller)
  \/ WriteContentFails(Caller)
  \/ signFileFails(Caller)
  \/ readTask(Caller, SharedTask.init, SharedTask.id)
  \/ readDependencies(Caller, SharedTask.init)
  \/ Resume(Caller)

SpecWriteFailure == Init /\ [][NextWriteFailure]_vars

\* The task tool is called with any request; calls may overlap.
NextTool ==
  \E p \in Procs :
    \/ \E params \in Requests : execute(p, params)
    \/ Resume(p)

SpecTool == Init /\ [][NextTool]_vars

\* Serialized writes of tasks, modifications of task files and sidecars from
\* outside the program, and IntegrityManagers with either key that verify the
\* task files.
NextFileIntegrity ==
  \/ \E task \in Tasks : writeTask(Caller, task)
  \/ \E k \in SigningKeys, path \in TaskFiles : verifyFileIntegrity(Caller, k, path)
  \/ Resume(Caller)
  \/ \E path \in TaskFiles : \E text \in ForeignTexts(path) : Tamper(path, text)
  \/ \E path \in TaskFiles, other \in TaskFiles : SwapSidecar(path, other)

SpecFileIntegrity == Init /\ [][NextFileIntegrity]_vars

\* One caller uses the journals call after call, and appends entries of any
\* status.
NextJournalStatus ==
  \/ \E i \in InitiativeIds, status \in EntryStatuses :
       appendEntry(Caller, i, "writeTask", "T1", status)
  \/ \E i \in InitiativeIds, n \in 1..MaxEntries : markCompleteAlone(Caller, i, IdOf(n))
  \/ \E i \in InitiativeIds : replay(Caller, i)
  \/ Resume(Caller)

SpecJournalStatus == Init /\ [][NextJournalStatus]_vars

\* Entries are appended while no call is in flight, to one journal; calls of
\* markComplete for entries that append has returned run alone or overlap in
\* any way.
appendBetween(p, initiativeId, operation, payload) ==
  Idle /\ appendAlone(p, initiativeId, operation, payload)

\* a call of markComplete, for an entry id that append has returned, that
\* runs from its call to its return while no other call is in flight
markCompleteBetween(p, initiativeId, entryId) ==
  /\ Idle
  /\ entryId.v <= nextId
  /\ markCompleteAlone(p, initiativeId, entryId)

NextMarkOverlap ==
  \E p \in Procs :
    \/ appendBetween(p, SharedJournal, "writeTask", "T1")
    \/ \E n \in 1..MaxEntries : markCompleteBetween(p, SharedJournal, IdOf(n))
    \/ \E n \in 1..MaxEntries : CallMarkComplete(p, SharedJournal, IdOf(n))
    \/ markReadMalformed(p)
    \/ markRead(p)
    \/ markOpen(p)
    \/ markComplete(p)
    \/ Resume(p)

SpecMarkOverlap == Init /\ [][NextMarkOverlap]_vars

\* Serialized writes and reads of tasks, and one copy of a task file with its
\* sidecar to the place of another task file, made from outside the program.
NextCopied ==
  \/ \E task \in Tasks : writeTask(Caller, task)
  \/ \E i \in InitiativeIds, t \in TaskIds : readTask(Caller, i, t)
  \/ Resume(Caller)
  \/ \E from \in TaskFiles, to \in TaskFiles : CopyWithSidecar(from, to)

SpecCopied == Init /\ [][NextCopied]_vars

(* ------------------------------- claims ------------------------------- *)

WriteOpOf(path) ==
  CASE path.kind = "manifest" -> "writeInitiative"
    [] path.kind = "task" -> "writeTask"
    [] OTHER -> "writeDependencies"

\* the text the last completed write of path has stored
TextLastWritten(path) == Stringify(WriteOpOf(path), lastWritten[path])

IsThrow(value) == "k" \in DOMAIN value /\ value.k = "throw"

\* process p stands at the return of a read
ReadReturned(p) == pc[p] = "returned" /\ ret[p].op \in ReadOps

\* C1 (as claimed): once a write of v has completed and nothing else has touched
\* the object's files, the matching read returns a value equal to v.
C1_RoundTrip ==
  \A p \in Procs :
    (ReadReturned(p) /\ lastWritten[ret[p].path] # NoValue)
      => ret[p].value = lastWritten[ret[p].path]

\* C2: after a completed write, when the content file holds another text and the
\* sidecar is still the one that write made, the read reports unavailable.
C2_TamperDetected ==
  \A p \in Procs :
    (/\ ReadReturned(p)
     /\ lastWritten[ret[p].path] # NoValue
     /\ files[ret[p].path] # TextLastWritten(ret[p].path)
     /\ files[SigPath(ret[p].path)] = SignatureOf(TextLastWritten(ret[p].path)))
      => ret[p].value = Unavailable(ret[p].op)

\* a read has returned from a file whose text was changed into other JSON text
C2_Witness ==
  \E p \in Procs :
    /\ ReadReturned(p)
    /\ modified
    /\ lastWritten[ret[p].path] # NoValue
    /\ files[ret[p].path].t = "json"
    /\ files[ret[p].path] # TextLastWritten(ret[p].path)
    /\ files[SigPath(ret[p].path)] = SignatureOf(TextLastWritten(ret[p].path))
    /\ ret[p].value = Unavailable(ret[p].op)

\* the step that puts a copy of the sidecar of other in the place of that of path
SidecarSwapped(path, other) ==
  /\ path # other
  /\ Verifies(path)
  /\ Verifies(other)
  /\ ~modified
  /\ modified'
  /\ files' = [files EXCEPT ![SigPath(path)] = files[SigPath(other)]]

\* C3 (as claimed): for any two validly written content files, replacing the
\* sidecar of one by the sidecar of the other makes the read of the first
\* report unavailable.
C3_SwapRejected ==
  [][\A path \in ContentPaths, other \in ContentPaths :
       SidecarSwapped(path, other) => ReadNow(path)' = Unavailable(ReadOpOf(path))]_vars

\* C3 (amended): the same, for two content files that hold different texts.
C3_SwapRejectedIfDifferent ==
  [][\A path \in ContentPaths, other \in ContentPaths :
       (SidecarSwapped(path, other) /\ files[path] # files[other])
         => ReadNow(path)' = Unavailable(ReadOpOf(path))]_vars

\* a read has returned from a file that carries the valid sidecar of another
C3_Witness ==
  \E p \in Procs : \E other \in ContentPaths :
    /\ ReadReturned(p)
    /\ modified
    /\ other # ret[p].path
    /\ Verifies(other)
    /\ lastWritten[ret[p].path] # NoValue
    /\ files[ret[p].path] = TextLastWritten(ret[p].path)
    /\ files[ret[p].path] # files[other]
    /\ files[SigPath(ret[p].path)] = files[SigPath(other)]
    /\ ret[p].value = Unavailable(ret[p].op)

\* the process crashes while write call p has written its content file and has
\* not yet written its sidecar
CrashedBeforeSidecar(p) ==
  /\ loc[p].op \in WriteOps
  /\ pc[p] \in {"signRead", "openSig", "writeSig"}
  /\ crashes' = crashes + 1

\* C4 (as claimed): a write that stops between its content file and its sidecar
\* leaves the object unavailable to the next read.
C4_CrashedWriteUnavailable ==
  [][\A p \in Procs : \A path \in ContentPaths :
       (CrashedBeforeSidecar(p) /\ loc[p].path = path)
         => ReadNow(path)' = Unavailable(ReadOpOf(path))]_vars

\* C4 (amended): the same, when the content the write stored differs from the
\* content of the last completed write of that object (or there was none).
C4_CrashedChangeUnavailable ==
  [][\A p \in Procs : \A path \in ContentPaths :
       (/\ CrashedBeforeSidecar(p)
        /\ loc[p].path = path
        /\ \/ lastWritten[path] = NoValue
           \/ Stringify(loc[p].op, loc[p].value) # TextLastWritten(path))
         => ReadNow(path)' = Unavailable(ReadOpOf(path))]_vars

\* after a crash, a read has returned from a file that holds the text of an
\* unfinished write under the sidecar of the write before it
C4_Witness ==
  \E p \in Procs :
    /\ ReadReturned(p)
    /\ crashes > 0
    /\ lastWritten[ret[p].path] # NoValue
    /\ files[ret[p].path].t = "json"
    /\ files[ret[p].path] # TextLastWritten(ret[p].path)
    /\ files[SigPath(ret[p].path)] = SignatureOf(TextLastWritten(ret[p].path))
    /\ ret[p].value = Unavailable(ret[p].op)

\* one of the four failures of a read holds of the files of path
ReadFails(path) ==
  \/ files[path] = Absent
  \/ files[SigPath(path)] = Absent
  \/ files[SigPath(path)] # SignatureOf(files[path])
  \/ JSONParse(files[path]) = ParseError

\* C5: a read changes no file, never throws, and returns null (the empty list
\* for dependencies) when the content file or the sidecar is missing, the
\* signature does not match, or the content is not JSON.
C5_ReadsNeverRaise ==
  [][\A p \in Procs :
       loc[p].op \in ReadOps =>
         /\ files' = files /\ dirs' = dirs /\ journal' = journal
         /\ pc'[p] = "returned" =>
              /\ ~IsThrow(ret'[p].value)
              /\ ReadFails(loc[p].path) => ret'[p].value = Unavailable(loc[p].op)]_vars

\* a read has returned unavailable from a content file that is not JSON and
\* whose sidecar signs it, after a crash has left another content file without
\* a sidecar
C5_Witness ==
  \E p \in Procs : \E other \in ContentPaths :
    /\ ReadReturned(p)
    /\ files[ret[p].path] = Malformed
    /\ files[SigPath(ret[p].path)] = SignatureOf(Malformed)
    /\ ret[p].value = Unavailable(ret[p].op)
    /\ files[other].t = "json"
    /\ files[SigPath(other)] = Absent

\* C6: with serialized calls, no crash and no outside modification, every
\* content file has, between operations, a sidecar that verifies against it.
C6_AlwaysSigned ==
  \A path \in ContentPaths :
    files[path] # Absent =>
      /\ files[SigPath(path)] # Absent
      /\ files[SigPath(path)] = SignatureOf(files[path])

\* every object has been written, and one of them a second time with a new value
C6_Witness ==
  /\ \A path \in ContentPaths : files[path] # Absent
  /\ pc[Caller] = "returned"
  /\ ret[Caller].op = "writeTask"
  /\ lastWritten[ret[Caller].path].title = StrOf(TitleNames[2])

\* both writeTask calls have returned and the sidecar does not sign the content
BothWritten ==
  \A p \in Procs : pc[p] = "returned" /\ ret[p].op = "writeTask"

SidecarMismatch(path) ==
  /\ files[path].t = "json"
  /\ files[SigPath(path)].t = "sig"
  /\ files[SigPath(path)] # SignatureOf(files[path])

\* C7: when the writes have left a sidecar that does not sign the stored
\* content, a read of the task reports unavailable (the written task is lost).
C7_MismatchRejected ==
  [][\A p \in Procs :
       (/\ loc[p].op = "readTask"
        /\ pc'[p] = "returned"
        /\ \A q \in Procs \ {p} : loc[q].op \notin WriteOps
        /\ SidecarMismatch(loc[p].path))
         => ret'[p].value = Null]_vars

\* two overlapping writeTask calls have both returned, and the content of the
\* one is stored under the signature of the content of the other
C7_Witness == BothWritten /\ SidecarMismatch(SharedTask)

\* the read of the Reader returns in this step
ReaderReturns ==
  /\ loc[Reader].op = "readTask"
  /\ pc[Reader] # "returned"
  /\ pc'[Reader] = "returned"

\* C8 (as claimed): a read that overlaps a write returns unavailable or a task
\* that was passed to a writeTask; a read that starts after the write has
\* completed returns the task written.
C8_ReadBesideWrite ==
  [][ReaderReturns =>
       /\ ret'[Reader].value \in {Null} \cup passed
       /\ (~overlapped /\ lastWritten[SharedTask] # NoValue)
            => ret'[Reader].value = lastWritten[SharedTask]]_vars

\* what the code does: the same holds of the tasks as JSON.parse returns them
C8_ReadBesideWriteAsParsed ==
  [][ReaderReturns =>
       /\ ret'[Reader].value \in
            {Null} \cup {JSONParse(StringifyTask(task)) : task \in passed}
       /\ (~overlapped /\ lastWritten[SharedTask] # NoValue)
            => ret'[Reader].value = JSONParse(StringifyTask(lastWritten[SharedTask]))]_vars

\* a read that overlapped a write has returned a task
C8_Witness ==
  /\ pc[Reader] = "returned"
  /\ ret[Reader].op = "readTask"
  /\ overlapped
  /\ ret[Reader].value # Null

\* the caller holds the id that append has returned and has not called markComplete
InWindow(p) ==
  \/ flow[p].at = "append" /\ pc[p] = "returned"
  \/ flow[p].at = "write"

WindowEntry(p) == IF flow[p].at = "append" THEN ret[p].value ELSE flow[p].entryId

\* replay of journal file j returns the entry of id, with this status
Replayed(j, id, status) ==
  \E n \in 1..Len(Replay(j)) : Replay(j)[n].id = id /\ Replay(j)[n].status = status

\* C9 (as claimed): when the process crashes after append has returned and
\* before markComplete has started, a replay after restart returns the entry
\* of that append, with status pending.
C9_Recoverable ==
  [][\A p \in Procs : \A id \in 1..MaxEntries :
       (InWindow(p) /\ WindowEntry(p) = IdOf(id) /\ crashes' = crashes + 1)
         => Replayed(journal'[flow[p].task.initiativeId], id, "pending")]_vars

\* what the code does: the same holds when every line of the journal is JSON
C9_RecoverableIfWellFormed ==
  [][\A p \in Procs : \A id \in 1..MaxEntries :
       (/\ InWindow(p) /\ WindowEntry(p) = IdOf(id) /\ crashes' = crashes + 1
        /\ AllParse(SplitLines(journal[flow[p].task.initiativeId])))
         => Replayed(journal'[flow[p].task.initiativeId], id, "pending")]_vars

\* the ids of the entries that journal file j holds with status completed
CompletedIn(j) ==
  {SplitLines(j)[n].e.id :
     n \in {m \in 1..Len(SplitLines(j)) :
              Parses(SplitLines(j)[m]) /\ SplitLines(j)[m].e.status = "completed"}}

\* in this step the entry of caller p gets status completed in the journal
BecomesCompleted(p) ==
  /\ flow[p].at = "mark"
  /\ flow[p].entryId.v \notin CompletedIn(journal[flow[p].task.initiativeId])
  /\ flow[p].entryId.v \in CompletedIn(journal'[flow[p].task.initiativeId])

\* C10 (as claimed): at the moment the entry's status becomes completed, the
\* content file and the sidecar of its write have been written, and a read of
\* the object returns the written value.
C10_CompletedAfterWrite ==
  [][\A p \in Procs : \A path \in ContentPaths :
       (BecomesCompleted(p) /\ path = TaskPath(flow[p].task.initiativeId, flow[p].task.id))
         => /\ files[path] = StringifyTask(flow[p].task)
            /\ files[SigPath(path)] = SignatureOf(files[path])
            /\ ReadNow(path) = flow[p].task]_vars

\* what the code does: the read returns the written task as JSON.parse gives it
C10_CompletedAfterWriteAsParsed ==
  [][\A p \in Procs : \A path \in ContentPaths :
       (BecomesCompleted(p) /\ path = TaskPath(flow[p].task.initiativeId, flow[p].task.id))
         => /\ files[path] = StringifyTask(flow[p].task)
            /\ files[SigPath(path)] = SignatureOf(files[path])
            /\ ReadNow(path) = JSONParse(StringifyTask(flow[p].task))]_vars

\* the ids of the lines of a journal that are entries
LineIds(lines) == {lines[n].e.id : n \in {m \in 1..Len(lines) : Parses(lines[m])}}

\* process p returns from append on the journal of initiative i in this step
AppendReturns(p, i) ==
  /\ pc[p] # "returned"
  /\ pc'[p] = "returned"
  /\ ret'[p].op = "append"
  /\ ret'[p].path = JournalPath(i)

Occurrences(n) ==
  {o \in InitiativeIds \X (1..MaxEntries) :
     /\ o[2] <= Len(Replay(journal[o[1]]))
     /\ Replay(journal[o[1]])[o[2]].id = n}

\* process p stands at the return of replay
ReplayReturned(p) == pc[p] = "returned" /\ ret[p].op = "replay"

\* C12: after any sequence of append and markComplete calls that run one at a
\* time and to completion, replay returns every entry ever appended, exactly
\* once, from the journal of the initiative it was appended to.
C12_NeverDeleted ==
  /\ \A n \in 1..MaxEntries :
       n <= nextId =>
         /\ Cardinality(Occurrences(n)) = 1
         /\ \A o \in Occurrences(n) : Replay(journal[o[1]])[o[2]].initiativeId = o[1]
  /\ \A p \in Procs :
       ReplayReturned(p) => ret[p].value = ListValue(Replay(journal[ret[p].path.init]))

\* replay has returned two entries, the first completed and the second pending
C12_Witness ==
  \E p \in Procs :
    /\ ReplayReturned(p)
    /\ Len(ret[p].value.list) = 2
    /\ ret[p].value.list[1].status = "completed"
    /\ ret[p].value.list[2].status = "pending"

\* how often replay of journal file j returns an entry of id n with this status
Count(j, n, status) ==
  Cardinality({k \in 1..Len(Replay(j)) :
                 Replay(j)[k].id = n /\ Replay(j)[k].status = status})

\* C13: after append of E and then markComplete(E), replay returns E exactly
\* once, with status completed; replay changes nothing and returns what the
\* journal holds, so that a second replay returns the same list.
C13_ReplayIdempotent ==
  [][\A p \in Procs : \A i \in InitiativeIds :
       /\ \A n \in 1..MaxEntries :
            (markCompleteAlone(p, i, IdOf(n)) /\ n \in LineIds(SplitLines(journal[i])))
              => /\ Count(journal'[i], n, "completed") = 1
                 /\ Count(journal'[i], n, "pending") = 0
       /\ replay(p, i)
            => /\ journal' = journal /\ files' = files /\ dirs' = dirs
               /\ ret'[p].value = ListValue(Replay(journal'[i]))]_vars

\* replay has returned the one entry of a journal, with status completed
C13_Witness ==
  \E p \in Procs :
    /\ ReplayReturned(p)
    /\ Len(ret[p].value.list) = 1
    /\ ret[p].value.list[1].status = "completed"
    /\ ret[p].value = ListValue(Replay(journal[ret[p].path.init]))

\* the ids of the entries of a journal file, in file order
IdSeq(j) == [k \in 1..Len(SplitLines(j)) |-> SplitLines(j)[k].e.id]

IsPrefix(s, t) == Len(s) <= Len(t) /\ SubSeq(t, 1, Len(s)) = s

\* C14: replay returns the entries in file order, which is the order in which
\* their appends completed (oldest first); markComplete, like every other
\* call, leaves the relative order of the entries as it was.
C14_FileOrder ==
  [][\A i \in InitiativeIds :
       /\ IsPrefix(IdSeq(journal[i]), IdSeq(journal'[i]))
       /\ \A k \in 1..Len(SplitLines(journal'[i])) : \A m \in 1..Len(SplitLines(journal'[i])) :
            k < m => SplitLines(journal'[i])[k].e.timestamp
                       < SplitLines(journal'[i])[m].e.timestamp
       /\ \A p \in Procs :
            replay(p, i) =>
              [k \in 1..Len(ret'[p].value.list) |-> ret'[p].value.list[k].id]
                = IdSeq(journal[i])]_vars

\* replay has returned two entries of which the second was marked complete
C14_Witness ==
  \E p \in Procs :
    /\ ReplayReturned(p)
    /\ Len(ret[p].value.list) = 2
    /\ ret[p].value.list[1].status = "pending"
    /\ ret[p].value.list[2].status = "completed"
    /\ ret[p].value.list[1].timestamp < ret[p].value.list[2].timestamp

EntryFields == {"id", "timestamp", "initiativeId", "operation", "payload", "requestId"}

\* C15: markComplete(initiativeId, entryId) changes only the status of the
\* entry of entryId, to completed: its other fields, every field of every other
\* entry, and the other journals and files are the same before and after.
C15_OnlyStatusChanges ==
  [][\A p \in Procs : \A i \in InitiativeIds : \A n \in 1..MaxEntries :
       markCompleteAlone(p, i, IdOf(n)) =>
         /\ Len(SplitLines(journal'[i])) = Len(SplitLines(journal[i]))
         /\ \A k \in 1..Len(SplitLines(journal[i])) :
              /\ \A f \in EntryFields :
                   SplitLines(journal'[i])[k].e[f] = SplitLines(journal[i])[k].e[f]
              /\ SplitLines(journal'[i])[k].e.status =
                   IF SplitLines(journal[i])[k].e.id = n
                   THEN "completed"
                   ELSE SplitLines(journal[i])[k].e.status
         /\ \A i2 \in InitiativeIds \ {i} : journal'[i2] = journal[i2]
         /\ files' = files]_vars

\* markComplete has returned, and the journal holds a completed entry before a
\* pending one
C15_Witness ==
  \E p \in Procs : \E i \in InitiativeIds :
    /\ pc[p] = "returned"
    /\ ret[p].op = "markComplete"
    /\ ret[p].path = JournalPath(i)
    /\ ret[p].value = Undefined
    /\ Len(journal[i].lines) = 2
    /\ journal[i].lines[1].e.status = "completed"
    /\ journal[i].lines[2].e.status = "pending"

\* in this step markComplete of process p finishes its rewrite of the journal
RewriteCompletes(p, i) ==
  /\ loc[p].op = "markComplete"
  /\ loc[p].path = JournalPath(i)
  /\ pc[p] = "markWrite"
  /\ pc'[p] = "returned"

\* C16: an append whose line is added after markComplete has read the journal
\* and before markComplete has rewritten it is overwritten: once the rewrite is
\* done, replay does not return the entry whose id that append has returned.
C16_AppendOverwritten ==
  [][\A p \in Procs : \A q \in Procs \ {p} : \A i \in InitiativeIds :
       (/\ RewriteCompletes(p, i)
        /\ pc[q] = "returned"
        /\ ret[q].op = "append"
        /\ ret[q].path = JournalPath(i)
        /\ ret[q].value.v \notin LineIds(loc[p].content.lines))
         => ret[q].value.v \notin LineIds(SplitLines(journal'[i]))]_vars

\* append has returned an id, markComplete has returned, and replay returns
\* entries of the journal but not the one of that id
C16_Witness ==
  \E p \in Procs : \E q \in Procs \ {p} :
    /\ pc[q] = "returned"
    /\ ret[q].op = "append"
    /\ pc[p] = "returned"
    /\ ret[p].op = "markComplete"
    /\ ret[p].value = Undefined
    /\ Len(Replay(journal[SharedJournal])) > 0
    /\ \A k \in 1..Len(Replay(journal[SharedJournal])) :
         Replay(journal[SharedJournal])[k].id # ret[q].value.v

\* process p is inside the rewrite of markComplete: the file is open for
\* writing and none of the new text is in it
InRewrite(p, i) ==
  /\ pc[p] = "markWrite"
  /\ loc[p].path = JournalPath(i)

\* this step is a crash of the process
CrashStep == crashes' = crashes + 1

\* C17: a crash during the rewrite of markComplete, after the file has been
\* opened and before text has been written, loses entries: of the entries
\* markComplete read from the journal, which a replay before the call
\* returned, at least one is not returned by replay after the restart.
C17_CrashInRewriteLoses ==
  [][\A p \in Procs : \A i \in InitiativeIds :
       (InRewrite(p, i) /\ Len(loc[p].content.lines) > 0 /\ CrashStep)
         => \E k \in 1..Len(loc[p].content.lines) :
              \A n \in 1..Len(Replay(journal'[i])) :
                Replay(journal'[i])[n].id # loc[p].content.lines[k].e.id]_vars

\* after a crash nothing runs, entries have been appended to the journal of X,
\* and the journal is an empty file
C17_Witness ==
  /\ crashes > 0
  /\ Idle
  /\ nextId > 0
  /\ journal["X"] = EmptyJournal

\* the entries of the lines of journal file j that are JSON, in file order
WellFormedEntries(j) ==
  IF j.exists
  THEN LET good == SelectSeq(SplitLines(j), Parses)
       IN  [n \in 1..Len(good) |-> good[n].e]
  ELSE <<>>

\* C18 (as claimed): replay does not raise, and it returns the well-formed
\* entries of the journal in file order, also when the journal holds a line
\* that is not JSON, which it leaves out.
C18_DropsOnlyMalformed ==
  \A p \in Procs :
    ReplayReturned(p) =>
      /\ ~IsThrow(ret[p].value)
      /\ ret[p].value = ListValue(WellFormedEntries(journal[ret[p].path.init]))

\* process p stands at the return of listTasks
ListReturned(p) == pc[p] = "returned" /\ ret[p].op = "listTasks"

\* the task last written to the file of id t under initiative i was written
\* under that initiative
WrittenUnder(i, t) ==
  /\ lastWritten[TaskPath(i, t)] # NoValue
  /\ lastWritten[TaskPath(i, t)].initiativeId = i

\* C19 (as claimed): after any writeTask calls, listTasks(Y) returns only tasks
\* written under Y, and a task that readTask(Y, id) returns was written under Y.
C19_ListingIsolated ==
  \A p \in Procs :
    /\ ListReturned(p) =>
         \A t \in ret[p].value.names : WrittenUnder(ret[p].path.init, t)
    /\ (ReadReturned(p) /\ ret[p].op = "readTask" /\ ret[p].value # Null) =>
         /\ WrittenUnder(ret[p].path.init, ret[p].path.id)
         /\ ret[p].value.initiativeId = ret[p].path.init

\* the initiatives whose tasks directory holds a task file of id t
StoredUnder(t) == {i \in InitiativeIds : files[TaskPath(i, t)].t = "json"}

\* C20 (as claimed): after any writeTask calls a task id is stored under one
\* initiative only, and the initiativeId in each stored task is the id of the
\* directory it is stored under, also when a task is written again with
\* another initiativeId.
C20_OneDirectory ==
  \A t \in TaskIds :
    /\ Cardinality(StoredUnder(t)) <= 1
    /\ \A i \in StoredUnder(t) : files[TaskPath(i, t)].doc.initiativeId = i

\* C21 (as claimed): a task file without a valid, matching sidecar is not
\* listed: every id that listTasks(X) returns is one for which readTask(X, id)
\* returns a task.
C21_ListedAreReadable ==
  \A p \in Procs :
    ListReturned(p) =>
      \A t \in ret[p].value.names : ReadNow(TaskPath(ret[p].path.init, t)) # Null

\* process p stands at the return of IntegrityManager.verifySignature
VerifyReturned(p) ==
  pc[p] = "returned" /\ ret[p].op = "IntegrityManager.verifySignature"

\* C22: verifySignature(data, signature) does not raise, and it returns true
\* exactly when signature is the HMAC, under the key of the manager, of the
\* SHA-256 digest of data; for the empty string and for a string that is no
\* digest it returns false.
C22_VerifyExact ==
  \A p \in Procs :
    VerifyReturned(p) =>
      /\ ret[p].value \in {BoolOf(TRUE), BoolOf(FALSE)}
      /\ ret[p].value = BoolOf(TRUE) <=>
           /\ loc[p].signature \notin {EmptyText, Malformed}
           /\ loc[p].signature.key = loc[p].signingKey
           /\ loc[p].signature.over = Sha256(loc[p].content)

\* verifySignature has returned false for a signature that the manager made
\* for other data
C22_Witness ==
  \E p \in Procs :
    /\ VerifyReturned(p)
    /\ ret[p].value = BoolOf(FALSE)
    /\ loc[p].signature \in {signData(loc[p].signingKey, d) : d \in DataStrings}

\* process p stands at the return of detectCycles
CyclesReturned(p) == pc[p] = "returned" /\ ret[p].op = "detectCycles"

Range(list) == {list[n] : n \in 1..Len(list)}

\* the successor of position n around a list
Around(list, n) == list[IF n = Len(list) THEN 1 ELSE n + 1]

\* the held contracts are, one each, the steps around the ids of ring
IsRing(held, ring) ==
  /\ Len(ring) > 0
  /\ Len(held) = Len(ring)
  /\ {<<held[n].from, held[n].to>> : n \in 1..Len(held)}
       = {<<ring[n], Around(ring, n)>> : n \in 1..Len(ring)}

\* C23: when the loaded contracts are one simple directed cycle through n
\* distinct tasks and taskIds lists those n tasks in any order, detectCycles
\* returns one cycle, which holds each of the n ids once.
C23_OneCycleFound ==
  \A p \in Procs :
    CyclesReturned(p) =>
      \A ring \in TaskIdListsOver(CycleIds) :
        (IsRing(Held(contracts), ring) /\ Range(ret[p].args) = Range(ring)) =>
          /\ Len(ret[p].value.list) = 1
          /\ Len(ret[p].value.list[1]) = Len(ring)
          /\ Range(ret[p].value.list[1]) = Range(ring)

\* the contracts are a cycle through three tasks, and detectCycles has
\* returned for a list that starts at another task than the first contract
C23_Witness ==
  \E p \in Procs : \E ring \in TaskIdListsOver(CycleIds) :
    /\ CyclesReturned(p)
    /\ Len(ring) = 3
    /\ IsRing(Held(contracts), ring)
    /\ Range(ret[p].args) = Range(ring)
    /\ ret[p].args[1] # Held(contracts)[1].from

\* the pairs (from, to) of the held contracts
Edges(held) == {<<held[n].from, held[n].to>> : n \in 1..Len(held)}

\* the ids of the list are pairwise distinct and a contract leads from each
\* to the next, and from the last to the first
IsCycleOf(held, list) ==
  /\ Len(list) > 0
  /\ \A n, m \in 1..Len(list) : list[n] = list[m] => n = m
  /\ \A n \in 1..Len(list) : <<list[n], Around(list, n)>> \in Edges(held)

\* C24: every list that detectCycles returns is a directed cycle of the
\* loaded contracts: its ids are pairwise distinct, a contract is loaded from
\* each id to the next and from the last id to the first.
C24_CyclesAreReal ==
  \A p \in Procs :
    CyclesReturned(p) =>
      \A n \in 1..Len(ret[p].value.list) : IsCycleOf(Held(contracts), ret[p].value.list[n])

\* detectCycles, called with one id, has returned a cycle that this id is not on
C24_Witness ==
  \E p \in Procs :
    /\ CyclesReturned(p)
    /\ Len(ret[p].args) = 1
    /\ Len(ret[p].value.list) > 0
    /\ ret[p].args[1] \notin Range(ret[p].value.list[1])

\* the held contracts have a directed cycle
HasCycle(held) == \E list \in TaskIdListsOver(CycleIds) : IsCycleOf(held, list)

\* C25 (as claimed): whenever the loaded contracts have a directed cycle,
\* detectCycles returns a list that is not empty, whatever taskIds names.
C25_NeverCycleFree ==
  \A p \in Procs :
    (CyclesReturned(p) /\ HasCycle(Held(contracts))) => Len(ret[p].value.list) > 0

\* how often x occurs in a list
CountIn(list, x) == Cardinality({n \in 1..Len(list) : list[n] = x})

\* process p stands at the return of this method of DependencyManager
Answered(p, op) == pc[p] = "returned" /\ ret[p].op = op

\* the day a task of the supplied list counts for: its due date when it has
\* one, else its creation date
DayOf(tasks, id) ==
  LET task == CHOOSE t \in Range(tasks) : t.id = id
  IN  IF task.dueDate \in {DateAt(n) : n \in 1..NumDays} THEN task.dueDate.t
      ELSE task.createdAt.t

Supplied(tasks, id) == \E t \in Range(tasks) : t.id = id

\* the pairs (from, to) of the held contracts, one per contract
Pairs(held) == [n \in 1..Len(held) |-> <<held[n].from, held[n].to>>]

\* C26: validateChronologicalOrder returns, for each pair (from, to), as many
\* violations naming to and then from as there are loaded contracts from -> to
\* when both tasks are supplied and the effective date of to is strictly
\* before that of from, and none otherwise; it returns nothing else.
C26_OneViolationPerContract ==
  \A p \in Procs :
    Answered(p, "validateChronologicalOrder") =>
      LET tasks == ret[p].args
          expected(a, b) ==
            IF Supplied(tasks, a) /\ Supplied(tasks, b) /\ DayOf(tasks, b) < DayOf(tasks, a)
            THEN CountIn(Pairs(Held(contracts)), <<a, b>>)
            ELSE 0
          message(a, b) == "Task " \o b \o " has due date before dependency " \o a
      IN  /\ \A a \in PairIds, b \in PairIds :
               CountIn(ret[p].value.list, message(a, b)) = expected(a, b)
          /\ Range(ret[p].value.list) \subseteq {message(a, b) : a \in PairIds, b \in PairIds}

\* a violation has been returned for a dependent task that has no due date
C26_Witness ==
  \E p \in Procs : \E c \in Range(Held(contracts)) :
    /\ Answered(p, "validateChronologicalOrder")
    /\ Len(ret[p].value.list) > 0
    /\ Supplied(ret[p].args, c.to)
    /\ Supplied(ret[p].args, c.from)
    /\ Find(ret[p].args, c.to).dueDate = Undefined
    /\ DayOf(ret[p].args, c.to) < DayOf(ret[p].args, c.from)

\* the methods of DependencyManager that only read the index
QueryOps == {"detectCycles", "validateChronologicalOrder", "getBlockedTasks", "getDependencies"}

\* process p returns from a method of DependencyManager in this step
Answers(p) == pc[p] = "idle" /\ pc'[p] = "returned"

\* C27: after loadContracts(L) the contracts held are those of L, each as often
\* as L has it, whatever was loaded before; detectCycles,
\* validateChronologicalOrder, getBlockedTasks and getDependencies leave the
\* index as it is.
C27_LoadReplaces ==
  [][\A p \in Procs :
       Answers(p) =>
         /\ ret'[p].op = "loadContracts" =>
              /\ Len(Held(contracts')) = Len(ret'[p].args)
              /\ \A c \in ContractsOver(PairIds) :
                   CountIn(Held(contracts'), c) = CountIn(ret'[p].args, c)
         /\ ret'[p].op \in QueryOps => contracts' = contracts]_vars

\* a list that has one contract twice and another contract between the two
\* has been loaded: the index holds the contract twice, under one key
C27_Witness ==
  \E p \in Procs :
    /\ Answered(p, "loadContracts")
    /\ Len(ret[p].args) = 3
    /\ ret[p].args[1] = ret[p].args[3]
    /\ ret[p].args[1] # ret[p].args[2]
    /\ Len(contracts) = 2

\* C28: getBlockedTasks(id) returns the to ids of the loaded contracts whose
\* from is id, and getDependencies(id) the from ids of those whose to is id,
\* each once per contract; so b is in getBlockedTasks(a) as often as a is in
\* getDependencies(b).
C28_BlockedAndDependencies ==
  \A p \in Procs :
    /\ Answered(p, "getBlockedTasks") =>
         \A b \in CycleIds :
           /\ CountIn(ret[p].value.list, b) = CountIn(Pairs(Held(contracts)), <<ret[p].args, b>>)
           /\ CountIn(ret[p].value.list, b)
                = CountIn(Dependencies(Held(contracts), b), ret[p].args)
    /\ Answered(p, "getDependencies") =>
         \A a \in CycleIds :
           /\ CountIn(ret[p].value.list, a) = CountIn(Pairs(Held(contracts)), <<a, ret[p].args>>)
           /\ CountIn(ret[p].value.list, a)
                = CountIn(BlockedTasks(Held(contracts), a), ret[p].args)

\* getBlockedTasks has returned a list that names one task twice, while
\* another contract leads to the task asked for
C28_Witness ==
  \E p \in Procs : \E b \in CycleIds :
    /\ Answered(p, "getBlockedTasks")
    /\ CountIn(ret[p].value.list, b) = 2
    /\ Len(Dependencies(Held(contracts), ret[p].args)) > 0
    /\ b # ret[p].args

\* C29 (as claimed): when the content write of a write operation fails, the
\* call fails, the sidecar is not written and the stored content and sidecar
\* are as before; when the sidecar write fails, the call fails and the object
\* is then read as unavailable.
C29_FailedWriteKeepsOrHides ==
  [][\A p \in Procs : \A path \in ContentPaths :
       /\ (loc[p].path = path /\ WriteContentFails(p)) =>
            /\ IsThrow(ret'[p].value)
            /\ files'[SigPath(path)] = files[SigPath(path)]
            /\ files'[path] = files[path]
       /\ (loc[p].path = path /\ signFileFails(p)) =>
            /\ IsThrow(ret'[p].value)
            /\ ReadNow(path)' = Unavailable(ReadOpOf(path))]_vars

\* C29 (amended): when the content write fails, the call fails and the sidecar
\* is not written; the stored content is as before when the file could not be
\* opened, and else is empty or partial and the object is read as unavailable.
\* When the sidecar write fails, the call fails and the object is then read as
\* unavailable, unless the sidecar file is left as it was and the content
\* written is the content it signs already.
C29_FailedWritePropagates ==
  [][\A p \in Procs : \A path \in ContentPaths :
       /\ (loc[p].path = path /\ WriteContentFails(p)) =>
            /\ IsThrow(ret'[p].value)
            /\ files'[SigPath(path)] = files[SigPath(path)]
            /\ \/ files'[path] = files[path]
               \/ /\ files'[path] \in {EmptyText, Malformed}
                  /\ ReadNow(path)' = Unavailable(ReadOpOf(path))
       /\ (loc[p].path = path /\ signFileFails(p)) =>
            /\ IsThrow(ret'[p].value)
            /\ \/ ReadNow(path)' = Unavailable(ReadOpOf(path))
               \/ /\ files'[SigPath(path)] = files[SigPath(path)]
                  /\ lastWritten[path] # NoValue
                  /\ files[path] = Stringify(WriteOpOf(path), lastWritten[path])]_vars

\* a write has failed at its sidecar: the call has thrown, the content file
\* holds the new text, and the object is read as unavailable
C29_Witness ==
  \E p \in Procs :
    /\ pc[p] = "returned"
    /\ ret[p].op \in WriteOps
    /\ IsThrow(ret[p].value)
    /\ files[ret[p].path].t = "json"
    /\ lastWritten[ret[p].path] # NoValue
    /\ ReadNow(ret[p].path) = Unavailable(ReadOpOf(ret[p].path))

\* the request names a task id, and the store has no task of that id
NamesUnknownTask(params) ==
  /\ params.task # Undefined
  /\ params.task.id # Undefined
  /\ params.task.id.v \notin DOMAIN taskMap

\* C30 (as claimed): update, assign and complete on a task id that is not in
\* the store fail with a not-found error and leave the store as it is.
C30_UnknownTaskNotFound ==
  [][\A p \in Procs :
       (/\ Answers(p)
        /\ ret'[p].op = "execute"
        /\ ret'[p].args.action \in {"update", "assign", "complete"}
        /\ NamesUnknownTask(ret'[p].args))
         => /\ ret'[p].value = Threw("NotFoundError")
            /\ taskMap' = taskMap]_vars

\* the request supplies a title of at least one character
TitleSupplied(params) ==
  /\ params.task # Undefined
  /\ ~Falsy(params.task.title)

CalledOn(p) ==
  IF ret'[p].op = "writeTask" /\ lastWritten'[ret'[p].path] # lastWritten[ret'[p].path]
  THEN lastWritten'[ret'[p].path].initiativeId
  ELSE ret'[p].path.init

\* C32 (as claimed): a call of FilesystemManager or JournalManager on
\* initiative X leaves every content file, sidecar and journal of every other
\* initiative as it was; a call of JournalManager changes no content file and
\* no sidecar, and a call of FilesystemManager changes no journal.
C32_OtherInitiativesUntouched ==
  [][\A p \in Procs :
       Answers(p) =>
         /\ \A path \in AllPaths : path.init # CalledOn(p) => files'[path] = files[path]
         /\ \A i \in InitiativeIds \ {CalledOn(p)} : journal'[i] = journal[i]
         /\ ret'[p].op \in JournalOps => files' = files
         /\ ret'[p].op \notin JournalOps => journal' = journal]_vars

\* C33: while only FilesystemManager has written, the sidecar of every task
\* file is what IntegrityManager.signData gives, with the same key, for the
\* content of the file; and verifyFileIntegrity(path) of an IntegrityManager
\* with the same key returns true exactly when the verification of
\* FilesystemManager accepts the file.
C33_SameScheme ==
  /\ ~modified =>
       \A path \in TaskFiles :
         files[path] # Absent => files[SigPath(path)] = signData(SigningKey, files[path])
  /\ \A p \in Procs :
       (Answered(p, "verifyFileIntegrity") /\ ret[p].args = SigningKey) =>
         ret[p].value = BoolOf(Verifies(ret[p].path))

\* verifyFileIntegrity has accepted a file that FilesystemManager wrote, and
\* the task file of the other initiative, whose content was changed from
\* outside, is on disk with the sidecar it had
C33_Witness ==
  \E p \in Procs :
    /\ Answered(p, "verifyFileIntegrity")
    /\ ret[p].args = SigningKey
    /\ ret[p].value = BoolOf(TRUE)
    /\ modified
    /\ \E path \in TaskFiles : files[path] # Absent /\ ~Verifies(path)

\* the ids reached from the ids of set along the held contracts, set included
RECURSIVE ReachedFrom(_, _)
ReachedFrom(held, set) ==
  LET next == set \cup {e[2] : e \in {d \in Edges(held) : d[1] \in set}}
  IN  IF next = set THEN set ELSE ReachedFrom(held, next)

\* the ids that lie on a directed cycle of the held contracts
OnCycle(held) ==
  {id \in CycleIds :
     \E list \in TaskIdListsOver(CycleIds) : IsCycleOf(held, list) /\ id \in Range(list)}

\* C34: when a directed cycle of the loaded contracts can be reached along
\* contracts from an id of taskIds, detectCycles(taskIds) returns a list that
\* is not empty, in whatever order taskIds and the contracts come.
C34_ReachableCycleFound ==
  \A p \in Procs :
    (/\ CyclesReturned(p)
     /\ ReachedFrom(Held(contracts), Range(ret[p].args)) \cap OnCycle(Held(contracts)) # {})
      => Len(ret[p].value.list) > 0

\* detectCycles has returned for two ids: the first is on no cycle and leads
\* into one, the second is on that cycle and was visited when its turn came
C34_Witness ==
  \E p \in Procs :
    /\ CyclesReturned(p)
    /\ Len(ret[p].args) = 2
    /\ ret[p].args[1] \notin OnCycle(Held(contracts))
    /\ ret[p].args[2] \in OnCycle(Held(contracts))
    /\ ret[p].args[2] \in ReachedFrom(Held(contracts), {ret[p].args[1]})
    /\ Len(Held(contracts)) = 3

\* C35 (as claimed): the list that detectCycles returns holds no cycle twice,
\* also when several contracts are loaded for one pair (from, to).
C35_NoCycleTwice ==
  \A p \in Procs :
    CyclesReturned(p) =>
      \A n, m \in 1..Len(ret[p].value.list) :
        ret[p].value.list[n] = ret[p].value.list[m] => n = m

\* no pair (from, to) has two held contracts
OnePerPair(held) == \A n, m \in 1..Len(held) : Pairs(held)[n] = Pairs(held)[m] => n = m

\* C35 (amended): when no pair (from, to) has more than one loaded contract,
\* the list that detectCycles returns holds no cycle twice.
C35_NoCycleTwiceOnePerPair ==
  \A p \in Procs :
    (CyclesReturned(p) /\ OnePerPair(Held(contracts))) =>
      \A n, m \in 1..Len(ret[p].value.list) :
        ret[p].value.list[n] = ret[p].value.list[m] => n = m

\* detectCycles has returned two cycles for three contracts of three pairs
C35_Witness ==
  \E p \in Procs :
    /\ CyclesReturned(p)
    /\ OnePerPair(Held(contracts))
    /\ Len(Held(contracts)) = 3
    /\ Len(ret[p].value.list) = 2

\* the nodes detectCycles(taskIds) has expanded on the held contracts, in order
Expanded(held, taskIds) == SearchedFrom(held, NoSearch, taskIds, 1).expanded

\* C36: detectCycles returns for every list of loaded contracts, cyclic ones
\* and self-loops included, and every taskIds: no id is expanded twice, and
\* the ids expanded are those reached from taskIds along the contracts.
C36_ExpandedOnce ==
  \A p \in Procs :
    CyclesReturned(p) =>
      /\ \A id \in CycleIds : CountIn(Expanded(Held(contracts), ret[p].args), id) <= 1
      /\ Range(Expanded(Held(contracts), ret[p].args))
           = ReachedFrom(Held(contracts), Range(ret[p].args))

\* detectCycles has returned where a contract leads from a task to itself and
\* two contracts are a cycle through two tasks, both of which were expanded
C36_Witness ==
  \E p \in Procs :
    /\ CyclesReturned(p)
    /\ \E e \in Edges(Held(contracts)) : e[1] = e[2]
    /\ \E list \in TaskIdListsOver(CycleIds) :
         /\ Len(list) = 2
         /\ IsCycleOf(Held(contracts), list)
         /\ Range(list) \subseteq Range(Expanded(Held(contracts), ret[p].args))

\* C37 (as claimed): an entry whose status is completed or failed keeps that
\* status in every later state of the journal; the status of an entry changes
\* only when it was pending.
C37_TerminalAbsorbing ==
  [][\A i \in InitiativeIds :
       \A n \in 1..Len(Replay(journal[i])) : \A m \in 1..Len(Replay(journal'[i])) :
         Replay(journal'[i])[m].id = Replay(journal[i])[n].id =>
           \/ Replay(journal'[i])[m].status = Replay(journal[i])[n].status
           \/ Replay(journal[i])[n].status = "pending"]_vars

\* replay of journal j reports the entry of this id with status completed
ReportsCompleted(j, id) ==
  \E k \in 1..Len(Replay(j)) : Replay(j)[k].id = id /\ Replay(j)[k].status = "completed"

Marked(p) == Answered(p, "markComplete") /\ ret[p].value = Undefined

C39_BoundToLocation ==
  [][/\ \A from \in TaskFiles, to \in TaskFiles :
          CopyWithSidecar(from, to) => ReadNow(to)' = Null
     /\ \A p \in Procs :
          (pc'[p] = "returned" /\ ret'[p].op = "readTask" /\ ret'[p].value # Null) =>
            /\ ret'[p].value.initiativeId = ret'[p].path.init
            /\ ret'[p].value.id = ret'[p].path.id]_vars

====
